---- MODULE Spec2Model ----
(***************************************************************************)
(* A model of kast-web's scan coordination core: the Scan / ScanResult /   *)
(* ScanShare tables (app/models.py), the scan routes and their access      *)
(* check (app/routes/scans.py), the JSON API (app/routes/api.py), the      *)
(* submission route (app/routes/main.py), the Celery worker and the result *)
(* parser (app/tasks.py) and the synchronous executor (app/utils.py).      *)
(*                                                                         *)
(* NULL columns: a NULL user id is the string "None", a NULL expires_at is *)
(* NoExpiry, a NULL output_dir is the empty tuple, a NULL error_message is *)
(* the empty string.  Time is one logical clock, `now`.                    *)
(***************************************************************************)
EXTENDS Integers, Sequences, FiniteSets, TLC

\* ------------------------------------------------------------------ bounds
MaxScans == 2       \* scan rows ever created in one behaviour
MaxShares == 2      \* share rows ever created in one behaviour
MaxResults == 3     \* result rows ever created in one behaviour
MaxTime == 2        \* the clock runs 0..MaxTime
MaxDays == 1        \* expires_in_days ranges over 0..MaxDays (1..MaxDays for links)
MaxProfiles == 3    \* profile rows ever created in one behaviour

\* ------------------------------------------------------------- the users
\* models.py: role is one of admin, power_user, user, viewer.
Users == {"admin", "power", "user", "viewer"}
Anonymous == "anonymous"
Actors == Users \cup {Anonymous}
NoUser == "None"
NoExpiry == -1
NoDir == <<>>
NoError == ""
NoTime == -1
NoProfile == 0

role(u) ==
    CASE u = "admin" -> "admin"
      [] u = "power" -> "power_user"
      [] u = "user" -> "user"
      [] OTHER -> "viewer"

is_authenticated(a) == a \in Users
is_admin(a) == is_authenticated(a) /\ role(a) = "admin"
can_run_active_scans(a) == is_authenticated(a) /\ role(a) \in {"admin", "power_user"}
is_power_user(a) == is_authenticated(a) /\ role(a) = "power_user"

\* ------------------------------------------------------------- the units
\* The scanner's plugins, with the type `kast --list-plugins` reports.
Units == {"pa", "ac"}
plugin_types(u) == IF u = "ac" THEN "active" ELSE "passive"
\* The unit names artifact files can carry: the registered units and one
\* whose name holds an underscore.  Parts(u) is the name split at '_'.
FileUnits == Units \cup {"x_y"}
Parts(u) == IF u = "x_y" THEN <<"x", "y">> ELSE <<u>>
\* Other *.json files of an output directory, split the same way:
\* kast_report.json and pa_tmp.json.
ReportJson == <<"kast", "report">>
ExtraNames == {ReportJson, <<"pa", "tmp">>}

\* -------------------------------------------------------------- the state
VARIABLES
    scans,          \* scans table: id -> row
    nextScanId,
    shares,         \* scan_shares table: a set of rows
    nextShareId,
    results,        \* scan_results table: a set of rows
    nextResultId,
    dirs,           \* the results directory: output dir -> its files
    now,            \* the clock
    tasks,          \* each scan's executor: where its worker stands
    sess,           \* the database sessions running a parser pass
    regen,          \* scans with a queued regenerate_report_task
    resp,           \* the response of the last request served
    profiles,       \* scan_config_profiles table: id -> row
    nextProfileId

vars == <<scans, nextScanId, shares, nextShareId, results, nextResultId,
          dirs, now, tasks, sess, regen, resp, profiles, nextProfileId>>

scan_tbl == <<scans, nextScanId>>
share_tbl == <<shares, nextShareId>>
result_tbl == <<results, nextResultId>>
files == <<dirs>>
executors == <<tasks, sess, regen>>
profile_tbl == <<profiles, nextProfileId>>

ScanIds == 1..MaxScans
\* The answer of a request: which handler, for whom, on which scan, and
\* whether it went through.
NoResp == [op |-> "none"]
Refused(op, a, j) == [op |-> op, actor |-> a, scan |-> j, served |-> FALSE]
Served(op, a, j) == [op |-> op, actor |-> a, scan |-> j, served |-> TRUE]

\* -------------------------------------------------- access control engine
\* ScanShare.is_expired
is_expired(share) ==
    IF share.expires_at = NoExpiry THEN FALSE ELSE now > share.expires_at

is_public(share) == share.shared_with_user_id = NoUser

\* ScanShare.query.filter_by(scan_id=.., shared_with_user_id=..).first():
\* the row with the lowest id, absent when the set is empty.
SharesFor(scan_id, user_id) ==
    {s \in shares : s.scan_id = scan_id /\ s.shared_with_user_id = user_id}

FirstShare(scan_id, user_id) ==
    LET rows == SharesFor(scan_id, user_id)
    IN  IF rows = {} THEN {}
        ELSE {CHOOSE s \in rows : \A t \in rows : s.id <= t.id}

\* check_scan_access(scan, required_permission) -> (has_access, level)
Denied == [has_access |-> FALSE, level |-> "None"]
Granted(level) == [has_access |-> TRUE, level |-> level]

check_scan_access_expired_ok(a, j, required_permission) ==
    IF is_admin(a) THEN Granted("edit")
    ELSE IF is_authenticated(a) /\ scans[j].user_id = a THEN Granted("edit")
    ELSE IF is_authenticated(a) /\ FirstShare(j, a) # {}
         THEN LET share == CHOOSE s \in FirstShare(j, a) : TRUE
              IN  IF required_permission = "view"
                  THEN Granted(share.permission_level)
                  ELSE IF share.permission_level = "edit"
                       THEN Granted("edit") ELSE Denied
    ELSE Denied

check_scan_access_view_is_edit(a, j, required_permission) ==
    IF is_admin(a) THEN Granted("edit")
    ELSE IF is_authenticated(a) /\ scans[j].user_id = a THEN Granted("edit")
    ELSE IF is_authenticated(a) /\ FirstShare(j, a) # {}
            /\ ~is_expired(CHOOSE s \in FirstShare(j, a) : TRUE)
         THEN Granted((CHOOSE s \in FirstShare(j, a) : TRUE).permission_level)
    ELSE Denied

check_scan_access(a, j, required_permission) ==
    IF is_admin(a) THEN Granted("edit")
    ELSE IF is_authenticated(a) /\ scans[j].user_id = a THEN Granted("edit")
    ELSE IF is_authenticated(a) /\ FirstShare(j, a) # {}
            /\ ~is_expired(CHOOSE s \in FirstShare(j, a) : TRUE)
         THEN LET share == CHOOSE s \in FirstShare(j, a) : TRUE
              IN  IF required_permission = "view"
                  THEN Granted(share.permission_level)
                  ELSE IF required_permission = "edit"
                          /\ share.permission_level = "edit"
                       THEN Granted("edit")
                       ELSE Denied
    ELSE Denied

\* check_scan_access_simple(scan)
check_scan_access_simple(a, j) == check_scan_access(a, j, "view").has_access

\* ------------------------------------------------------- the file system
\* A per-unit artifact file holds a JSON document, abstracted to the keys the
\* parser reads.  "" is an absent key; findings is [shape, len].
ErrKeys == {"error", "message", "error_message", "f_error", "f_message",
            "details", "reason"}
Absent == [state |-> "absent"]
Malformed == [state |-> "malformed"]
NoErrs == [k \in ErrKeys |-> ""]
Doc(disposition, shape, len, errs) ==
    [state |-> "ok", plugin_name |-> "", disposition |-> disposition,
     findings |-> [shape |-> shape, len |-> len], errs |-> errs]
\* The documents the modelled scanner writes.
ProcDocs ==
    { Doc("success", "dict", 1, NoErrs),
      Doc("fail", "dict", 0, [NoErrs EXCEPT !["error"] = "timeout"]),
      Malformed }

NoFile == [raw |-> FALSE, processed |-> Absent]
EmptyDir ==
    [files |-> [u \in FileUnits |-> NoFile], report |-> FALSE, asset |-> FALSE,
     json |-> {}]

\* Path(scan.output_dir).exists()
DirExists(d) == d # NoDir /\ d \in DOMAIN dirs
processed_exists(d, u) == DirExists(d) /\ dirs[d].files[u].processed # Absent
raw_exists(d, u) == DirExists(d) /\ dirs[d].files[u].raw

\* A requested file name below the output directory.
FileNames ==
    {[kind |-> "report", unit |-> ""], [kind |-> "asset", unit |-> ""]}
    \cup {[kind |-> "processed", unit |-> u] : u \in Units}
Suffix(f) ==
    CASE f.kind = "report" -> ".html"
      [] f.kind = "asset" -> ".css"
      [] OTHER -> ".json"
FileExists(d, f) ==
    /\ DirExists(d)
    /\ CASE f.kind = "report" -> dirs[d].report
         [] f.kind = "asset" -> dirs[d].asset
         [] OTHER -> dirs[d].files[f.unit].processed # Absent

\* ---------------------------------------------------------------- sharing
\* scans.py share_with_user: the form offers the active users other than the
\* owner, the levels view and edit, and 0..365 days (0: never expires).
Levels == {"view", "edit"}
ExpiresAt(days) == IF days > 0 THEN now + days ELSE NoExpiry

UserShare(id, j, user_id, level, a, days) ==
    [id |-> id, scan_id |-> j, shared_with_user_id |-> user_id,
     permission_level |-> level, share_token |-> 0, created_by |-> a,
     expires_at |-> ExpiresAt(days)]

share_with_user(a, j, user_id, level, days) ==
    /\ a \in Users
    /\ UNCHANGED <<scan_tbl, result_tbl, files, now, profile_tbl, executors>>
    /\ IF j \notin DOMAIN scans
          \/ ~check_scan_access(a, j, "edit").has_access
          \/ user_id \notin Users \ {scans[j].user_id}
       THEN /\ UNCHANGED <<shares, nextShareId>>
            /\ resp' = Refused("share_with_user", a, j)
       ELSE /\ resp' = Served("share_with_user", a, j)
            /\ IF FirstShare(j, user_id) # {}
               THEN LET existing == CHOOSE s \in FirstShare(j, user_id) : TRUE
                    IN  /\ shares' = (shares \ {existing}) \cup
                               {[existing EXCEPT !.permission_level = level,
                                                 !.expires_at = ExpiresAt(days)]}
                        /\ UNCHANGED nextShareId
               ELSE /\ nextShareId <= MaxShares
                    /\ shares' = shares \cup
                           {UserShare(nextShareId, j, user_id, level, a, days)}
                    /\ nextShareId' = nextShareId + 1

\* scans.py generate_public_link: 1..365 days; the level is not an input.
PublicShareEdit(id, j, a, days) ==
    [id |-> id, scan_id |-> j, shared_with_user_id |-> NoUser,
     permission_level |-> "edit", share_token |-> id, created_by |-> a,
     expires_at |-> now + days]

PublicShare(id, j, a, days) ==
    [id |-> id, scan_id |-> j, shared_with_user_id |-> NoUser,
     permission_level |-> "view", share_token |-> id, created_by |-> a,
     expires_at |-> now + days]

generate_public_link(a, j, days) ==
    /\ a \in Users
    /\ UNCHANGED <<scan_tbl, result_tbl, files, now, profile_tbl, executors>>
    /\ IF j \notin DOMAIN scans
          \/ ~check_scan_access(a, j, "edit").has_access
       THEN /\ UNCHANGED <<shares, nextShareId>>
            /\ resp' = Refused("generate_public_link", a, j)
       ELSE IF FirstShare(j, NoUser) # {}
               /\ ~is_expired(CHOOSE s \in FirstShare(j, NoUser) : TRUE)
       THEN /\ UNCHANGED <<shares, nextShareId>>
            /\ resp' = Served("generate_public_link", a, j)
       ELSE /\ nextShareId <= MaxShares
            /\ resp' = Served("generate_public_link", a, j)
            /\ shares' = shares \cup {PublicShare(nextShareId, j, a, days)}
            /\ nextShareId' = nextShareId + 1

\* scans.py revoke_share
revoke_share(a, j, share_id) ==
    /\ a \in Users
    /\ UNCHANGED <<scan_tbl, result_tbl, files, now, profile_tbl, executors, nextShareId>>
    /\ IF j \notin DOMAIN scans
          \/ ~check_scan_access(a, j, "edit").has_access
          \/ ~\E s \in shares : s.id = share_id /\ s.scan_id = j
       THEN /\ UNCHANGED shares
            /\ resp' = Refused("revoke_share", a, j)
       ELSE /\ shares' = {s \in shares : s.id # share_id}
            /\ resp' = Served("revoke_share", a, j)

transfer_ownership_revokes(a, j, new_owner_id) ==
    /\ a \in Users
    /\ UNCHANGED <<nextScanId, nextShareId, result_tbl, files, now, profile_tbl, executors>>
    /\ IF j \notin DOMAIN scans
          \/ (~is_admin(a) /\ scans[j].user_id # a)
          \/ new_owner_id \notin Users \ {scans[j].user_id}
       THEN /\ UNCHANGED <<scans, shares>>
            /\ resp' = Refused("transfer_ownership", a, j)
       ELSE /\ scans' = [scans EXCEPT ![j].user_id = new_owner_id]
            /\ shares' = {s \in shares : s.scan_id # j}
            /\ resp' = Served("transfer_ownership", a, j)

\* scans.py transfer_ownership: admin or owner, not check_scan_access.
transfer_ownership(a, j, new_owner_id) ==
    /\ a \in Users
    /\ UNCHANGED <<nextScanId, share_tbl, result_tbl, files, now, profile_tbl, executors>>
    /\ IF j \notin DOMAIN scans
          \/ (~is_admin(a) /\ scans[j].user_id # a)
          \/ new_owner_id \notin Users \ {scans[j].user_id}
       THEN /\ UNCHANGED scans
            /\ resp' = Refused("transfer_ownership", a, j)
       ELSE /\ scans' = [scans EXCEPT ![j].user_id = new_owner_id]
            /\ resp' = Served("transfer_ownership", a, j)

\* datetime.utcnow() advances.
Tick ==
    /\ now < MaxTime
    /\ now' = now + 1
    /\ resp' = NoResp
    /\ UNCHANGED <<scan_tbl, share_tbl, result_tbl, files, profile_tbl, executors>>

\* ---------------------------------------------------------- result parser
ErrLimit == 1000
\* len(str(message)); "long" stands for a message over the column limit.
MsgLen(m) == IF m = "long" THEN ErrLimit + 1 ELSE 7
Truncate(m) == IF m # "" /\ MsgLen(m) > ErrLimit THEN "long..." ELSE m

\* tasks.py extract_plugin_error: one if/elif chain over the keys.
extract_plugin_error(doc, disposition) ==
    IF disposition # "fail" THEN NoError
    ELSE Truncate(
        IF doc.errs["error"] # "" THEN doc.errs["error"]
        ELSE IF doc.errs["message"] # "" THEN doc.errs["message"]
        ELSE IF doc.errs["error_message"] # "" THEN doc.errs["error_message"]
        ELSE IF doc.findings.shape # "missing"
             THEN IF doc.findings.shape = "dict"
                  THEN IF doc.errs["f_error"] # "" THEN doc.errs["f_error"]
                       ELSE doc.errs["f_message"]
                  ELSE NoError
        ELSE IF doc.errs["details"] # "" THEN doc.errs["details"]
        ELSE doc.errs["reason"])

\* data.get('disposition', 'unknown')
disposition_of(doc) == IF doc.disposition = "" THEN "unknown" ELSE doc.disposition

\* data.get('plugin_name', json_file.stem.replace('_processed', ''))
plugin_name_of(u, doc) == IF doc.plugin_name = "" THEN u ELSE doc.plugin_name

\* findings: a dict counts its 'results', a list counts itself, else 0.
findings_count_of(doc) ==
    IF doc.findings.shape \in {"dict", "list"} THEN doc.findings.len ELSE 0

ResultRow(id, sid, d, u, doc) ==
    [id |-> id, scan_id |-> sid, plugin_name |-> plugin_name_of(u, doc),
     status |-> disposition_of(doc),
     findings_count |-> findings_count_of(doc),
     processed_output_path |-> <<d, u>>,
     error_message |-> extract_plugin_error(doc, disposition_of(doc))]

\* ScanResult.query.filter_by(scan_id=.., plugin_name=..).first()
FirstResult(rows, sid, name) ==
    LET found == {r \in rows : r.scan_id = sid /\ r.plugin_name = name}
    IN  IF found = {} THEN {}
        ELSE {CHOOSE r \in found : \A t \in found : r.id <= t.id}

\* utils.py parse_scan_results, the update branch: error_message is not
\* among the columns it assigns.
utils_UpdateRow(existing, new) ==
    [existing EXCEPT !.status = new.status,
                     !.findings_count = new.findings_count,
                     !.processed_output_path = new.processed_output_path]

UpdateRowKeepError(existing, new) ==
    [existing EXCEPT !.status = new.status,
                     !.findings_count = new.findings_count,
                     !.processed_output_path = new.processed_output_path]

\* tasks.py parse_scan_results, the update branch.
UpdateRow(existing, new) ==
    [existing EXCEPT !.status = new.status,
                     !.findings_count = new.findings_count,
                     !.processed_output_path = new.processed_output_path,
                     !.error_message = new.error_message]

\* One iteration of the parser's loop over *_processed.json, against the
\* table as the session sees it: a file json.load rejects is logged and
\* skipped; a found row is updated in place; otherwise a row is added.
parse_file(tbl, sid, d, u) ==
    LET doc == dirs[d].files[u].processed
    IN  IF doc.state # "ok" THEN tbl
        ELSE LET new == ResultRow(tbl.nid, sid, d, u, doc)
                 found == FirstResult(tbl.rows, sid, new.plugin_name)
             IN  IF found # {}
                 THEN LET existing == CHOOSE r \in found : TRUE
                      IN  [tbl EXCEPT !.rows = (tbl.rows \ {existing})
                                        \cup {UpdateRow(existing, new)}]
                 ELSE [rows |-> tbl.rows \cup {new}, nid |-> tbl.nid + 1]

RECURSIVE parse_files(_, _, _, _)
parse_files(tbl, sid, d, todo) ==
    IF todo = {} THEN tbl
    ELSE LET u == CHOOSE x \in todo : TRUE
         IN  parse_files(parse_file(tbl, sid, d, u), sid, d, todo \ {u})

\* tasks.py parse_scan_results run without interruption: the table after it.
parse_scan_results(sid, d) ==
    IF ~DirExists(d) THEN [rows |-> results, nid |-> nextResultId]
    ELSE parse_files([rows |-> results, nid |-> nextResultId], sid, d,
                     {u \in FileUnits : processed_exists(d, u)})

\* utils.py parse_scan_results: the same loop without error extraction.
utils_ResultRow(id, sid, d, u, doc) ==
    [id |-> id, scan_id |-> sid, plugin_name |-> plugin_name_of(u, doc),
     status |-> disposition_of(doc),
     findings_count |-> findings_count_of(doc),
     processed_output_path |-> <<d, u>>,
     error_message |-> NoError]

utils_parse_file(tbl, sid, d, u) ==
    LET doc == dirs[d].files[u].processed
    IN  IF doc.state # "ok" THEN tbl
        ELSE LET new == utils_ResultRow(tbl.nid, sid, d, u, doc)
                 found == FirstResult(tbl.rows, sid, new.plugin_name)
             IN  IF found # {}
                 THEN LET existing == CHOOSE r \in found : TRUE
                      IN  [tbl EXCEPT !.rows = (tbl.rows \ {existing})
                                        \cup {utils_UpdateRow(existing, new)}]
                 ELSE [rows |-> tbl.rows \cup {new}, nid |-> tbl.nid + 1]

RECURSIVE utils_parse_files(_, _, _, _)
utils_parse_files(tbl, sid, d, todo) ==
    IF todo = {} THEN tbl
    ELSE LET u == CHOOSE x \in todo : TRUE
         IN  utils_parse_files(utils_parse_file(tbl, sid, d, u), sid, d, todo \ {u})

utils_parse_scan_results(sid, d) ==
    IF ~DirExists(d) THEN [rows |-> results, nid |-> nextResultId]
    ELSE utils_parse_files([rows |-> results, nid |-> nextResultId], sid, d,
                           {u \in FileUnits : processed_exists(d, u)})

\* -------------------------------------------------------- state reconciler
\* The candidate unit names: the explicit selection, else the names found in
\* the output directory ({unit}.json, {unit}_processed.json), else none.
\* output_dir.glob("*.json"): the names of the directory's JSON files.
JsonNames(d) ==
    {Parts(u) : u \in {x \in FileUnits : raw_exists(d, x)}}
    \cup {Append(Parts(u), "processed") :
             u \in {x \in FileUnits : processed_exists(d, x)}}
    \cup dirs[d].json
\* The unit a file name stands for: kast_report.json is skipped, a name
\* ending in _processed.json gives what precedes it, any other name counts
\* only when it holds no underscore.
DiscoveredFrom(name) ==
    IF name = ReportJson THEN {}
    ELSE IF Len(name) >= 2 /\ name[Len(name)] = "processed"
         THEN {SubSeq(name, 1, Len(name) - 1)}
         ELSE IF Len(name) = 1 THEN {name} ELSE {}
plugin_list(j) ==
    IF scans[j].plugins # {} THEN scans[j].plugins
    ELSE IF DirExists(scans[j].output_dir)
         THEN {u \in FileUnits :
                 \E n \in JsonNames(scans[j].output_dir) :
                    Parts(u) \in DiscoveredFrom(n)}
         ELSE {}

\* db_results[plugin]: a dict comprehension keeps the last row of a name.
LastResult(rows, sid, name) ==
    LET found == {r \in rows : r.scan_id = sid /\ r.plugin_name = name}
    IN  IF found = {} THEN {}
        ELSE {CHOOSE r \in found : \A t \in found : r.id >= t.id}

plugin_status_needs_row(rows, j, u) ==
    LET d == scans[j].output_dir
        row == LastResult(rows, j, u)
    IN  IF processed_exists(d, u) /\ row # {}
        THEN [plugin_name |-> u, status |-> "completed",
              findings_count |-> (CHOOSE r \in row : TRUE).findings_count]
        ELSE IF raw_exists(d, u) \/ processed_exists(d, u)
             THEN [plugin_name |-> u, status |-> "in_progress", findings_count |-> 0]
             ELSE [plugin_name |-> u, status |-> "pending", findings_count |-> 0]

plugin_status_raw_first(rows, j, u) ==
    LET d == scans[j].output_dir
    IN  IF raw_exists(d, u)
        THEN [plugin_name |-> u, status |-> "in_progress", findings_count |-> 0]
        ELSE IF processed_exists(d, u)
             THEN [plugin_name |-> u, status |-> "completed", findings_count |-> 0]
             ELSE [plugin_name |-> u, status |-> "pending", findings_count |-> 0]

plugin_status(rows, j, u) ==
    LET d == scans[j].output_dir
        row == LastResult(rows, j, u)
    IN  IF processed_exists(d, u)
        THEN [plugin_name |-> u, status |-> "completed",
              findings_count |-> IF row # {}
                                 THEN (CHOOSE r \in row : TRUE).findings_count
                                 ELSE 0]
        ELSE IF raw_exists(d, u)
             THEN [plugin_name |-> u, status |-> "in_progress", findings_count |-> 0]
             ELSE [plugin_name |-> u, status |-> "pending", findings_count |-> 0]

\* api.py get_scan_status builds one entry per candidate unit.
api_plugin_statuses(rows, j) == {plugin_status(rows, j, u) : u \in plugin_list(j)}

\* scans.py detail leaves out active units of a passive scan.
detail_plugin_statuses(rows, j) ==
    {plugin_status(rows, j, u) :
        u \in {x \in plugin_list(j) :
                 ~(scans[j].scan_mode = "passive" /\ plugin_types(x) = "active")}}

Reads == <<scan_tbl, share_tbl, result_tbl, files, now, profile_tbl, executors>>

\* ------------------------------------------------ read routes of scans.py
\* detail
detail(a, j) ==
    /\ a \in Users
    /\ UNCHANGED Reads
    /\ resp' = IF j \notin DOMAIN scans \/ ~check_scan_access_simple(a, j)
               THEN Refused("detail", a, j)
               ELSE [op |-> "detail", actor |-> a, scan |-> j, served |-> TRUE,
                     status |-> scans[j].status,
                     results |-> detail_plugin_statuses(results, j)]

\* list_files
list_files(a, j) ==
    /\ a \in Users
    /\ UNCHANGED Reads
    /\ resp' = IF j \notin DOMAIN scans \/ ~check_scan_access_simple(a, j)
                  \/ ~DirExists(scans[j].output_dir)
               THEN Refused("list_files", a, j)
               ELSE Served("list_files", a, j)

\* view_report
view_report(a, j) ==
    /\ a \in Users
    /\ UNCHANGED Reads
    /\ resp' = IF j \notin DOMAIN scans \/ ~check_scan_access_simple(a, j)
                  \/ ~FileExists(scans[j].output_dir, [kind |-> "report", unit |-> ""])
               THEN Refused("view_report", a, j)
               ELSE Served("view_report", a, j)

\* download_report
download_report(a, j) ==
    /\ a \in Users
    /\ UNCHANGED Reads
    /\ resp' = IF j \notin DOMAIN scans \/ ~check_scan_access_simple(a, j)
                  \/ ~FileExists(scans[j].output_dir, [kind |-> "report", unit |-> ""])
               THEN Refused("download_report", a, j)
               ELSE Served("download_report", a, j)

\* `if not check_scan_access(scan)` tests the returned pair itself, and a
\* pair is true in Python whatever it holds.
TupleIsTrue(pair) == TRUE

\* serve_scan_file: only style, script and image files.
allowed_extensions == {".css", ".js", ".png", ".jpg", ".jpeg", ".gif", ".svg"}
serve_scan_file(a, j, f) ==
    /\ a \in Users
    /\ UNCHANGED Reads
    /\ resp' = IF j \notin DOMAIN scans \/ scans[j].output_dir = NoDir
                  \/ ~TupleIsTrue(check_scan_access(a, j, "view"))
                  \/ Suffix(f) \notin allowed_extensions
                  \/ ~FileExists(scans[j].output_dir, f)
               THEN Refused("serve_scan_file", a, j)
               ELSE Served("serve_scan_file", a, j)

\* view_file: any file below the output directory.
view_file(a, j, f) ==
    /\ a \in Users
    /\ UNCHANGED Reads
    /\ resp' = IF j \notin DOMAIN scans \/ scans[j].output_dir = NoDir
                  \/ ~TupleIsTrue(check_scan_access(a, j, "view"))
                  \/ ~FileExists(scans[j].output_dir, f)
               THEN Refused("view_file", a, j)
               ELSE Served("view_file", a, j)

\* ---------------------------------------------------- the API of api.py
\* get_scans: no login_required, every scan's to_dict().
get_scans(a) ==
    /\ a \in Actors
    /\ UNCHANGED Reads
    /\ resp' = [op |-> "get_scans", actor |-> a, served |-> TRUE,
                listed |-> DOMAIN scans]

\* get_scan: no login_required, the scan and its result rows.
get_scan(a, j) ==
    /\ a \in Actors
    /\ UNCHANGED Reads
    /\ resp' = IF j \notin DOMAIN scans THEN Refused("get_scan", a, j)
               ELSE [op |-> "get_scan", actor |-> a, scan |-> j, served |-> TRUE,
                     status |-> scans[j].status,
                     error_message |-> scans[j].error_message,
                     rows |-> {r \in results : r.scan_id = j}]

get_scan_status_parses_always(a, j) ==
    /\ a \in Actors
    /\ UNCHANGED <<scan_tbl, share_tbl, files, now, profile_tbl, executors>>
    /\ IF j \notin DOMAIN scans
       THEN /\ resp' = Refused("get_scan_status", a, j)
            /\ UNCHANGED <<results, nextResultId>>
       ELSE LET tbl == IF scans[j].output_dir # NoDir
                       THEN parse_scan_results(j, scans[j].output_dir)
                       ELSE [rows |-> results, nid |-> nextResultId]
            IN  /\ tbl.nid <= MaxResults + 1
                /\ results' = tbl.rows
                /\ nextResultId' = tbl.nid
                /\ resp' = [op |-> "get_scan_status", actor |-> a, scan |-> j,
                            served |-> TRUE, status |-> scans[j].status,
                            error_message |-> scans[j].error_message,
                            results |-> api_plugin_statuses(tbl.rows, j)]

\* get_scan_status: no login_required; a running scan with an output
\* directory is parsed first, then the statuses are derived.
get_scan_status(a, j) ==
    /\ a \in Actors
    /\ UNCHANGED <<scan_tbl, share_tbl, files, now, profile_tbl, executors>>
    /\ IF j \notin DOMAIN scans
       THEN /\ resp' = Refused("get_scan_status", a, j)
            /\ UNCHANGED <<results, nextResultId>>
       ELSE LET tbl == IF scans[j].status = "running" /\ scans[j].output_dir # NoDir
                       THEN parse_scan_results(j, scans[j].output_dir)
                       ELSE [rows |-> results, nid |-> nextResultId]
            IN  /\ tbl.nid <= MaxResults + 1
                /\ results' = tbl.rows
                /\ nextResultId' = tbl.nid
                /\ resp' = [op |-> "get_scan_status", actor |-> a, scan |-> j,
                            served |-> TRUE, status |-> scans[j].status,
                            error_message |-> scans[j].error_message,
                            results |-> api_plugin_statuses(tbl.rows, j)]

\* The access control engine applied to one (actor, scan, permission).
resolve(a, j, required_permission) ==
    /\ a \in Actors
    /\ j \in DOMAIN scans
    /\ UNCHANGED Reads
    /\ resp' = [op |-> "check_scan_access", actor |-> a, scan |-> j,
                required |-> required_permission,
                result |-> check_scan_access(a, j, required_permission)]

\* ------------------------------------------------------------ executors
Sessions == {"worker", "poll1", "poll2"}
IdleSession == [pc |-> "idle"]
NoSessions == [s \in Sessions |-> IdleSession]

\* tasks[j]: kind is "celery" (execute_scan_task) or "sync"
\* (execute_kast_scan inside the rerun request); pc is where it stands; dir is
\* the directory handed to the scanner; alive says the child process runs;
\* plugins is the selection handed to the scanner with --run-only;
\* returncode and stderr are what the executor collected from the child;
\* actor and origin are the requester and, for a re-run, the scan re-run
\* (current_user and original_scan of the handler); config names the profile
\* whose YAML the scanner was given with --config, NoProfile for none.
NoCode == -1
Finished(kind, d) ==
    [kind |-> kind, pc |-> "done", dir |-> d, alive |-> FALSE, plugins |-> {},
     returncode |-> 0, stderr |-> "", actor |-> NoUser, origin |-> 0,
     config |-> NoProfile]

ScanRow(a, target, mode, plugins) ==
    [user_id |-> a, target |-> target, scan_mode |-> mode, plugins |-> plugins,
     status |-> "pending", output_dir |-> NoDir, error_message |-> NoError,
     completed_at |-> NoTime, config_profile_id |-> NoProfile,
     config_overrides |-> "", parallel |-> FALSE, verbose |-> FALSE,
     dry_run |-> FALSE]

\* ------------------------------------------------ SpecAccess: one finished
\* scan of any owner with its output directory and at most one user grant
\* (any grantee, level and expiry); the clock and every read route act on it.
DoneDir == <<"t", 0>>
DoneDoc == Doc("success", "dict", 1, NoErrs)

InitAccess ==
    /\ \E o \in Users :
         scans = [j \in {1} |->
                    [ScanRow(o, "t", "passive", {}) EXCEPT
                        !.status = "completed", !.output_dir = DoneDir,
                      !.completed_at = 0]]
    /\ nextScanId = 2
    /\ \E n \in 0..1, u \in Users, l \in Levels, e \in {NoExpiry} \cup 0..MaxTime :
         /\ shares = IF n = 0 THEN {}
                     ELSE {[UserShare(1, 1, u, l, "admin", 0) EXCEPT !.expires_at = e]}
         /\ nextShareId = n + 1
    /\ results = {ResultRow(1, 1, DoneDir, "pa", DoneDoc)}
    /\ nextResultId = 2
    /\ dirs = [d \in {DoneDir} |->
                 [EmptyDir EXCEPT !.report = TRUE, !.asset = TRUE,
                                  !.files["pa"].processed = DoneDoc]]
    /\ now = 0
    /\ tasks = [j \in {1} |-> Finished("celery", DoneDir)]
    /\ sess = NoSessions
    /\ regen = {}
    /\ resp = NoResp
    /\ profiles = <<>>
    /\ nextProfileId = 1

NextAccess ==
    \/ Tick
    \/ \E a \in Actors, j \in ScanIds, p \in Levels : resolve(a, j, p)
    \/ \E a \in Users, j \in ScanIds : detail(a, j)
    \/ \E a \in Users, j \in ScanIds : list_files(a, j)
    \/ \E a \in Users, j \in ScanIds : view_report(a, j)
    \/ \E a \in Users, j \in ScanIds : download_report(a, j)
    \/ \E a \in Users, j \in ScanIds, f \in FileNames : serve_scan_file(a, j, f)
    \/ \E a \in Users, j \in ScanIds, f \in FileNames : view_file(a, j, f)
    \/ \E a \in Actors : get_scans(a)
    \/ \E a \in Actors, j \in ScanIds : get_scan(a, j)
    \/ \E a \in Actors, j \in ScanIds : get_scan_status(a, j)

SpecAccess == InitAccess /\ [][NextAccess]_vars

\* ------------------------------------------------- configuration profiles
\* models.py ScanConfigProfile.  A name is <<base, n>>: base followed by n
\* times " (Copy)"; config_yaml is abstracted to the name of its content.
ProfileRow(name, yaml, a, allow, dflt) ==
    [name |-> name, config_yaml |-> yaml, created_by |-> a,
     allow_standard_users |-> allow, is_system_default |-> dflt]

\* The answer of a profile request; cleared holds the rows whose default
\* flag the request's bulk UPDATE reset.
ProfileResp(op, a, id, served, cleared) ==
    [op |-> op, actor |-> a, profile |-> id, served |-> served,
     cleared |-> cleared]

\* utils.py power_user_required
power_user_required(a) == is_authenticated(a) /\ (is_power_user(a) \/ is_admin(a))

\* forms.py validate_name: the form has no attribute obj, so the name is
\* looked up on every save, of a new and of an edited profile alike.
validate_name(name) == ~\E id \in DOMAIN profiles : profiles[id].name = name

ClearNothing(tbl, keep) == tbl

\* ScanConfigProfile.query.filter_by(is_system_default=True).update(...)
ClearDefault(tbl, keep) ==
    [id \in DOMAIN tbl |->
        IF id \in keep THEN tbl[id] ELSE [tbl[id] EXCEPT !.is_system_default = FALSE]]

Holders(tbl) == {id \in DOMAIN tbl : tbl[id].is_system_default}

\* config_profiles.py create_profile
create_profile(a, name, yaml_ok, allow, dflt) ==
    /\ a \in Users
    /\ UNCHANGED <<scan_tbl, share_tbl, result_tbl, files, now, executors>>
    /\ IF ~power_user_required(a) \/ ~validate_name(name) \/ ~yaml_ok
       THEN /\ UNCHANGED profile_tbl
            /\ resp' = ProfileResp("create_profile", a, NoProfile, FALSE, {})
       ELSE /\ nextProfileId <= MaxProfiles
            /\ profiles' = (IF dflt THEN ClearDefault(profiles, {}) ELSE profiles)
                           @@ (nextProfileId :> ProfileRow(name, "yaml", a, allow, dflt))
            /\ nextProfileId' = nextProfileId + 1
            /\ resp' = ProfileResp("create_profile", a, nextProfileId, TRUE,
                                  IF dflt THEN Holders(profiles) ELSE {})

\* config_profiles.py edit_profile
edit_profile(a, id, name, yaml_ok, allow, dflt) ==
    /\ a \in Users
    /\ UNCHANGED <<scan_tbl, share_tbl, result_tbl, files, now, executors,
                   nextProfileId>>
    /\ IF ~power_user_required(a) \/ id \notin DOMAIN profiles
          \/ ~validate_name(name) \/ ~yaml_ok
       THEN /\ UNCHANGED profiles
            /\ resp' = ProfileResp("edit_profile", a, id, FALSE, {})
       ELSE /\ profiles' =
                  [(IF dflt /\ ~profiles[id].is_system_default
                    THEN ClearDefault(profiles, {id}) ELSE profiles)
                   EXCEPT ![id].name = name,
                          ![id].allow_standard_users = allow,
                          ![id].is_system_default = dflt]
            /\ resp' = ProfileResp("edit_profile", a, id, TRUE,
                                  IF dflt /\ ~profiles[id].is_system_default
                                  THEN Holders(profiles) \ {id} ELSE {})

\* config_profiles.py delete_profile: refused while a scan refers to it.
delete_profile(a, id) ==
    /\ a \in Users
    /\ UNCHANGED <<scan_tbl, share_tbl, result_tbl, files, now, executors,
                   nextProfileId>>
    /\ IF ~power_user_required(a) \/ id \notin DOMAIN profiles
          \/ \E j \in DOMAIN scans : scans[j].config_profile_id = id
       THEN /\ UNCHANGED profiles
            /\ resp' = ProfileResp("delete_profile", a, id, FALSE, {})
       ELSE /\ profiles' = [x \in DOMAIN profiles \ {id} |-> profiles[x]]
            /\ resp' = ProfileResp("delete_profile", a, id, TRUE, {})

\* config_profiles.py duplicate_profile: the copy is never the default; a
\* second copy of the same profile breaks the unique name and is rolled back.
CopyName(name) == <<name[1], name[2] + 1>>
duplicate_profile(a, id) ==
    /\ a \in Users
    /\ UNCHANGED <<scan_tbl, share_tbl, result_tbl, files, now, executors>>
    /\ IF ~power_user_required(a) \/ id \notin DOMAIN profiles
          \/ ~validate_name(CopyName(profiles[id].name))
       THEN /\ UNCHANGED profile_tbl
            /\ resp' = ProfileResp("duplicate_profile", a, id, FALSE, {})
       ELSE /\ nextProfileId <= MaxProfiles
            /\ profiles' = profiles @@ (nextProfileId :>
                  ProfileRow(CopyName(profiles[id].name), profiles[id].config_yaml,
                             a, profiles[id].allow_standard_users, FALSE))
            /\ nextProfileId' = nextProfileId + 1
            /\ resp' = ProfileResp("duplicate_profile", a, nextProfileId, TRUE, {})

\* ------------------------------------------------------------ job launcher
\* main.py create_scan.  The form offers "no profile" and the profiles the
\* requester may see; then: an active scan needs can_run_active_scans; a
\* passive scan may not select an active plugin; a standard user may not name
\* a profile closed to standard users; overrides of a requester who is neither
\* power user nor admin are dropped with a warning.  The row is committed
\* pending and execute_scan_task.delay() is called (an exception from it is
\* only logged).
profile_choices(a) ==
    {NoProfile} \cup
    {id \in DOMAIN profiles :
        is_power_user(a) \/ is_admin(a) \/ profiles[id].allow_standard_users}

SubmitResp(a, j, served, mode, plugins, profile, overrides) ==
    [op |-> "create_scan", actor |-> a, scan |-> j, served |-> served,
     mode |-> mode, plugins |-> plugins, profile |-> profile,
     overrides |-> overrides]

StoredOverrides(a, overrides) ==
    IF overrides # "" /\ (is_power_user(a) \/ is_admin(a)) THEN overrides ELSE ""

create_scan_any_selection(a, mode, plugins, profile, overrides, queued) ==
    /\ a \in Users
    /\ UNCHANGED <<share_tbl, result_tbl, files, now, profile_tbl, sess, regen>>
    /\ IF \/ profile \notin profile_choices(a)
          \/ (mode = "active" /\ ~can_run_active_scans(a))
          \/ (/\ profile # NoProfile
              /\ ~(is_power_user(a) \/ is_admin(a))
              /\ ~profiles[profile].allow_standard_users)
       THEN /\ UNCHANGED <<scan_tbl, tasks>>
            /\ resp' = SubmitResp(a, 0, FALSE, mode, plugins, profile, overrides)
       ELSE /\ nextScanId <= MaxScans
            /\ resp' = SubmitResp(a, nextScanId, TRUE, mode, plugins, profile,
                                  overrides)
            /\ scans' = scans @@ (nextScanId :>
                  [ScanRow(a, "t", mode, plugins) EXCEPT
                      !.config_profile_id = profile,
                      !.config_overrides = StoredOverrides(a, overrides)])
            /\ nextScanId' = nextScanId + 1
            /\ tasks' = tasks @@ (nextScanId :>
                  [kind |-> "celery", pc |-> IF queued THEN "queued" ELSE "done",
                   dir |-> NoDir, alive |-> FALSE, plugins |-> plugins,
                   returncode |-> NoCode, stderr |-> "", actor |-> a,
                   origin |-> 0, config |-> NoProfile])

create_scan(a, mode, plugins, profile, overrides, queued) ==
    /\ a \in Users
    /\ UNCHANGED <<share_tbl, result_tbl, files, now, profile_tbl, sess, regen>>
    /\ IF \/ profile \notin profile_choices(a)
          \/ (mode = "active" /\ ~can_run_active_scans(a))
          \/ (mode = "passive" /\ \E p \in plugins : plugin_types(p) = "active")
          \/ (/\ profile # NoProfile
              /\ ~(is_power_user(a) \/ is_admin(a))
              /\ ~profiles[profile].allow_standard_users)
       THEN /\ UNCHANGED <<scan_tbl, tasks>>
            /\ resp' = SubmitResp(a, 0, FALSE, mode, plugins, profile, overrides)
       ELSE /\ nextScanId <= MaxScans
            /\ resp' = SubmitResp(a, nextScanId, TRUE, mode, plugins, profile,
                                  overrides)
            /\ scans' = scans @@ (nextScanId :>
                  [ScanRow(a, "t", mode, plugins) EXCEPT
                      !.config_profile_id = profile,
                      !.config_overrides = StoredOverrides(a, overrides)])
            /\ nextScanId' = nextScanId + 1
            /\ tasks' = tasks @@ (nextScanId :>
                  [kind |-> "celery", pc |-> IF queued THEN "queued" ELSE "done",
                   dir |-> NoDir, alive |-> FALSE, plugins |-> plugins,
                   returncode |-> NoCode, stderr |-> "", actor |-> a,
                   origin |-> 0, config |-> NoProfile])

\* f"{target}-{timestamp}" below the results directory.
NewDir(target) == <<target, now>>
\* output_dir.mkdir(parents=True, exist_ok=True)
Mkdir(d) == IF d \in DOMAIN dirs THEN dirs ELSE dirs @@ (d :> EmptyDir)

\* The failure handlers: status, error_message and completed_at.
Fail(row, message) ==
    [row EXCEPT !.status = "failed", !.error_message = message,
                !.completed_at = now]

\* tasks.py execute_scan_task, the profile of the row: its YAML is written to
\* a temporary file that is passed with --config.  A row without a profile, a
\* profile row that is not found, and a write that fails (written = FALSE)
\* all leave config_file_path None: the command is built without --config.
ConfigFile(row, written) ==
    IF /\ row.config_profile_id # NoProfile
       /\ row.config_profile_id \in DOMAIN profiles
       /\ written
    THEN row.config_profile_id
    ELSE NoProfile

\* tasks.py execute_scan_task up to Popen: the directory is made, the row is
\* committed running with its output_dir, the child is started.
worker_start(j, written) ==
    /\ j \in DOMAIN tasks
    /\ tasks[j].kind = "celery" /\ tasks[j].pc = "queued"
    /\ resp' = NoResp
    /\ UNCHANGED <<nextScanId, share_tbl, result_tbl, now, profile_tbl, sess, regen>>
    /\ IF j \notin DOMAIN scans
       THEN /\ tasks' = [tasks EXCEPT ![j].pc = "done"]
            /\ UNCHANGED <<scans, dirs>>
       ELSE LET d == NewDir(scans[j].target)
            IN  /\ dirs' = Mkdir(d)
                /\ scans' = [scans EXCEPT ![j].status = "running",
                                          ![j].output_dir = d]
                /\ tasks' = [tasks EXCEPT ![j].pc = "process", ![j].dir = d,
                                          ![j].alive = TRUE,
                                          ![j].config = ConfigFile(scans[j], written)]

\* An exception before the running commit (the results directory cannot be
\* made): the handler of `except Exception` marks the row failed.
worker_start_error(j) ==
    /\ j \in DOMAIN tasks
    /\ tasks[j].kind = "celery" /\ tasks[j].pc = "queued"
    /\ resp' = NoResp
    /\ UNCHANGED <<nextScanId, share_tbl, result_tbl, files, now, profile_tbl, sess, regen>>
    /\ tasks' = [tasks EXCEPT ![j].pc = "done"]
    /\ scans' = IF j \in DOMAIN scans
                THEN [scans EXCEPT ![j] = Fail(@, "error")]
                ELSE scans

\* stderr or 'Scan failed with no error message'
NoStderr == "Scan failed with no error message"
ErrorOfRaw(stderr) == stderr
ErrorOf(stderr) == IF stderr # "" THEN stderr ELSE NoStderr

\* The terminal status of a child that exited with return code rc and the
\* captured stderr.
ExitRowRegress(row, d, rc, stderr) ==
    [row EXCEPT !.output_dir = d,
                !.completed_at = now,
                !.status = IF rc = 0 THEN "completed" ELSE "pending",
                !.error_message = IF rc = 0 THEN @ ELSE ErrorOf(stderr)]

ExitRowMoved(row, d, rc, stderr) ==
    [row EXCEPT !.output_dir = <<row.target, now + 1>>,
                !.completed_at = now,
                !.status = IF rc = 0 THEN "completed" ELSE "failed",
                !.error_message = IF rc = 0 THEN @ ELSE ErrorOf(stderr)]

ExitRow(row, d, rc, stderr) ==
    [row EXCEPT !.output_dir = d,
                !.completed_at = now,
                !.status = IF rc = 0 THEN "completed" ELSE "failed",
                !.error_message = IF rc = 0 THEN @ ELSE ErrorOf(stderr)]

\* tasks.py execute_scan_task after communicate() returned: the terminal
\* commit, then parse_scan_results for either return code.
worker_exit(j, rc, stderr) ==
    /\ j \in DOMAIN tasks
    /\ tasks[j].kind = "celery" /\ tasks[j].pc = "process"
    /\ resp' = NoResp
    /\ UNCHANGED <<nextScanId, share_tbl, files, now, profile_tbl, sess, regen>>
    /\ tasks' = [tasks EXCEPT ![j].pc = "done", ![j].alive = FALSE,
                              ![j].returncode = rc, ![j].stderr = stderr]
    /\ IF j \notin DOMAIN scans
       THEN UNCHANGED <<scans, result_tbl>>
       ELSE LET tbl == parse_scan_results(j, tasks[j].dir)
            IN  /\ tbl.nid <= MaxResults + 1
                /\ scans' = [scans EXCEPT ![j] = ExitRow(@, tasks[j].dir, rc, stderr)]
                /\ results' = tbl.rows
                /\ nextResultId' = tbl.nid

\* subprocess.TimeoutExpired from communicate(timeout=3600): the row is
\* marked failed; the child is not killed and the parser is not run.
worker_timeout(j) ==
    /\ j \in DOMAIN tasks
    /\ tasks[j].kind = "celery" /\ tasks[j].pc = "process"
    /\ resp' = NoResp
    /\ UNCHANGED <<nextScanId, share_tbl, result_tbl, files, now, profile_tbl, sess, regen>>
    /\ tasks' = [tasks EXCEPT ![j].pc = "done"]
    /\ scans' = IF j \in DOMAIN scans
                THEN [scans EXCEPT ![j] = Fail(@, "Scan timed out after 1 hour")]
                ELSE scans

\* Any other exception after the running commit (Popen cannot start the
\* scanner, the log cannot be written).
worker_error(j) ==
    /\ j \in DOMAIN tasks
    /\ tasks[j].kind = "celery" /\ tasks[j].pc = "process"
    /\ resp' = NoResp
    /\ UNCHANGED <<nextScanId, share_tbl, result_tbl, files, now, profile_tbl, sess, regen>>
    /\ tasks' = [tasks EXCEPT ![j].pc = "done", ![j].alive = FALSE]
    /\ scans' = IF j \in DOMAIN scans
                THEN [scans EXCEPT ![j] = Fail(@, "error")]
                ELSE scans

\* The worker process is killed or restarted while execute_scan_task waits in
\* communicate(): the task was acknowledged when it was received (acks_late
\* is not set), so it is not delivered again; no handler runs and the row is
\* left as committed.  The child dies with the worker or runs on.
worker_lost(j, child) ==
    /\ j \in DOMAIN tasks
    /\ tasks[j].kind = "celery" /\ tasks[j].pc = "process"
    /\ resp' = NoResp
    /\ UNCHANGED <<scan_tbl, share_tbl, result_tbl, files, now, profile_tbl, sess, regen>>
    /\ tasks' = [tasks EXCEPT ![j].pc = "done", ![j].alive = child]

\* The scanner writes {unit}.json, {unit}_processed.json, the report or a
\* style file into the directory it was given, making the directory first;
\* with --run-only it runs the selected units only.
WriteFile(dir, what, u, doc) ==
    CASE what = "raw" -> [dir EXCEPT !.files[u].raw = TRUE]
      [] what = "processed" -> [dir EXCEPT !.files[u].processed = doc]
      [] what = "report" -> [dir EXCEPT !.report = TRUE]
      [] what = "json" -> [dir EXCEPT !.json = @ \cup {u}]
      [] OTHER -> [dir EXCEPT !.asset = TRUE]

proc_write(j, what, u, doc) ==
    /\ j \in DOMAIN tasks
    /\ tasks[j].alive
    /\ tasks[j].plugins # {} => u \in tasks[j].plugins
    /\ resp' = NoResp
    /\ UNCHANGED <<scan_tbl, share_tbl, result_tbl, now, profile_tbl, executors>>
    /\ LET d == tasks[j].dir
       IN  dirs' = [x \in DOMAIN dirs \cup {d} |->
                      IF x = d THEN WriteFile(Mkdir(d)[d], what, u, doc)
                      ELSE dirs[x]]

\* ------------------------------------------- re-run and the sync executor
\* The answer of an accepted re-run: the redirect to the new scan with the
\* flashed outcome of execute_kast_scan (result['success'], result['error']).
RerunResp(j, success, error) ==
    [op |-> "rerun", actor |-> tasks[j].actor, scan |-> tasks[j].origin,
     served |-> TRUE, new |-> j, success |-> success, error |-> error]

rerun_any_mode(a, j) ==
    /\ a \in Users
    /\ UNCHANGED <<share_tbl, result_tbl, files, now, profile_tbl, sess, regen>>
    /\ IF j \notin DOMAIN scans
          \/ ~check_scan_access(a, j, "edit").has_access
       THEN /\ UNCHANGED <<scan_tbl, tasks>>
            /\ resp' = Refused("rerun", a, j)
       ELSE /\ nextScanId <= MaxScans
            /\ resp' = NoResp
            /\ scans' = scans @@ (nextScanId :>
                  [ScanRow(a, scans[j].target, scans[j].scan_mode,
                           scans[j].plugins) EXCEPT
                      !.parallel = scans[j].parallel,
                      !.verbose = scans[j].verbose,
                      !.dry_run = scans[j].dry_run])
            /\ nextScanId' = nextScanId + 1
            /\ tasks' = tasks @@ (nextScanId :>
                  [kind |-> "sync", pc |-> "queued", dir |-> NoDir,
                   alive |-> FALSE, plugins |-> scans[j].plugins,
                   returncode |-> NoCode, stderr |-> "", actor |-> a,
                   origin |-> j, config |-> NoProfile])

rerun_restarts(a, j) ==
    /\ a \in Users
    /\ UNCHANGED <<share_tbl, result_tbl, files, now, profile_tbl, sess, regen>>
    /\ IF j \notin DOMAIN scans
          \/ ~check_scan_access(a, j, "edit").has_access
          \/ (scans[j].scan_mode = "active" /\ ~can_run_active_scans(a))
       THEN /\ UNCHANGED <<scan_tbl, tasks>>
            /\ resp' = Refused("rerun", a, j)
       ELSE /\ nextScanId <= MaxScans
            /\ resp' = NoResp
            /\ scans' = [scans EXCEPT ![j].status = "pending"] @@ (nextScanId :>
                  [ScanRow(a, scans[j].target, scans[j].scan_mode,
                           scans[j].plugins) EXCEPT
                      !.parallel = scans[j].parallel,
                      !.verbose = scans[j].verbose,
                      !.dry_run = scans[j].dry_run])
            /\ nextScanId' = nextScanId + 1
            /\ tasks' = tasks @@ (nextScanId :>
                  [kind |-> "sync", pc |-> "queued", dir |-> NoDir,
                   alive |-> FALSE, plugins |-> scans[j].plugins,
                   returncode |-> NoCode, stderr |-> "", actor |-> a,
                   origin |-> j, config |-> NoProfile])

\* scans.py rerun: edit on the original, the active-mode check, then a new
\* pending row owned by the requester; execute_kast_scan runs in the request,
\* which is answered (RerunResp) when the executor has returned.
rerun(a, j) ==
    /\ a \in Users
    /\ UNCHANGED <<share_tbl, result_tbl, files, now, profile_tbl, sess, regen>>
    /\ IF j \notin DOMAIN scans
          \/ ~check_scan_access(a, j, "edit").has_access
          \/ (scans[j].scan_mode = "active" /\ ~can_run_active_scans(a))
       THEN /\ UNCHANGED <<scan_tbl, tasks>>
            /\ resp' = Refused("rerun", a, j)
       ELSE /\ nextScanId <= MaxScans
            /\ resp' = NoResp
            /\ scans' = scans @@ (nextScanId :>
                  [ScanRow(a, scans[j].target, scans[j].scan_mode,
                           scans[j].plugins) EXCEPT
                      !.parallel = scans[j].parallel,
                      !.verbose = scans[j].verbose,
                      !.dry_run = scans[j].dry_run])
            /\ nextScanId' = nextScanId + 1
            /\ tasks' = tasks @@ (nextScanId :>
                  [kind |-> "sync", pc |-> "queued", dir |-> NoDir,
                   alive |-> FALSE, plugins |-> scans[j].plugins,
                   returncode |-> NoCode, stderr |-> "", actor |-> a,
                   origin |-> j, config |-> NoProfile])

\* utils.py execute_kast_scan up to subprocess.run: the row is committed
\* running, the directory name is chosen and handed to the scanner; the row's
\* output_dir stays NULL until the scanner returns.
sync_start(j) ==
    /\ j \in DOMAIN tasks
    /\ tasks[j].kind = "sync" /\ tasks[j].pc = "queued"
    /\ UNCHANGED <<nextScanId, share_tbl, result_tbl, files, now, profile_tbl, sess, regen>>
    /\ IF j \notin DOMAIN scans
       THEN /\ tasks' = [tasks EXCEPT ![j].pc = "done"]
            /\ resp' = RerunResp(j, FALSE, "Scan not found")
            /\ UNCHANGED scans
       ELSE /\ resp' = NoResp
            /\ scans' = [scans EXCEPT ![j].status = "running"]
            /\ tasks' = [tasks EXCEPT ![j].pc = "process",
                                      ![j].dir = NewDir(scans[j].target),
                                      ![j].alive = TRUE]

\* result.stderr or 'Unknown error', the error execute_kast_scan returns.
UnknownOf(stderr) == IF stderr # "" THEN stderr ELSE "Unknown error"

\* subprocess.run returned: the terminal commit; the parser only after rc 0.
sync_exit(j, rc, stderr) ==
    /\ j \in DOMAIN tasks
    /\ tasks[j].kind = "sync" /\ tasks[j].pc = "process"
    /\ resp' = RerunResp(j, rc = 0, IF rc = 0 THEN NoError ELSE UnknownOf(stderr))
    /\ UNCHANGED <<nextScanId, share_tbl, files, now, profile_tbl, sess, regen>>
    /\ tasks' = [tasks EXCEPT ![j].pc = "done", ![j].alive = FALSE,
                              ![j].returncode = rc, ![j].stderr = stderr]
    /\ IF j \notin DOMAIN scans
       THEN UNCHANGED <<scans, result_tbl>>
       ELSE LET tbl == IF rc = 0 THEN utils_parse_scan_results(j, tasks[j].dir)
                       ELSE [rows |-> results, nid |-> nextResultId]
            IN  /\ tbl.nid <= MaxResults + 1
                /\ scans' = [scans EXCEPT ![j] = ExitRow(@, tasks[j].dir, rc, stderr)]
                /\ results' = tbl.rows
                /\ nextResultId' = tbl.nid

\* subprocess.run(timeout=3600) kills the child before it raises.
sync_timeout(j) ==
    /\ j \in DOMAIN tasks
    /\ tasks[j].kind = "sync" /\ tasks[j].pc = "process"
    /\ resp' = RerunResp(j, FALSE, "Scan timed out")
    /\ UNCHANGED <<nextScanId, share_tbl, result_tbl, files, now, profile_tbl, sess, regen>>
    /\ tasks' = [tasks EXCEPT ![j].pc = "done", ![j].alive = FALSE]
    /\ scans' = IF j \in DOMAIN scans
                THEN [scans EXCEPT ![j] = Fail(@, "Scan timed out after 1 hour")]
                ELSE scans

\* Any other exception of execute_kast_scan (the scanner cannot be started).
sync_error(j) ==
    /\ j \in DOMAIN tasks
    /\ tasks[j].kind = "sync" /\ tasks[j].pc = "process"
    /\ resp' = RerunResp(j, FALSE, "error")
    /\ UNCHANGED <<nextScanId, share_tbl, result_tbl, files, now, profile_tbl, sess, regen>>
    /\ tasks' = [tasks EXCEPT ![j].pc = "done", ![j].alive = FALSE]
    /\ scans' = IF j \in DOMAIN scans
                THEN [scans EXCEPT ![j] = Fail(@, "error")]
                ELSE scans

\* ------------------------------------------------------------------ delete
\* db.session.delete(scan): the results go with it (cascade); a share row of
\* the scan would have its NOT NULL scan_id set to NULL, so the commit fails
\* and nothing is deleted.  Then shutil.rmtree, whose failure is only flashed.
RemoveDir(d, rm_ok) ==
    IF DirExists(d) /\ rm_ok THEN [x \in DOMAIN dirs \ {d} |-> dirs[x]] ELSE dirs

\* The answer of a committed delete: the redirect to the list with a flash of
\* category 'warning' when rmtree raised and 'success' otherwise.
DeleteResp(a, j, rm_ok) ==
    [op |-> "delete", actor |-> a, scan |-> j, served |-> TRUE,
     flash |-> IF DirExists(scans[j].output_dir) /\ ~rm_ok
               THEN "warning" ELSE "success"]

delete_unchecked(a, j, rm_ok) ==
    /\ a \in Users
    /\ UNCHANGED <<nextScanId, share_tbl, nextResultId, now, profile_tbl, executors>>
    /\ IF j \notin DOMAIN scans
          \/ (\E s \in shares : s.scan_id = j)
       THEN /\ UNCHANGED <<scans, results, dirs>>
            /\ resp' = Refused("delete", a, j)
       ELSE /\ resp' = DeleteResp(a, j, rm_ok)
            /\ scans' = [x \in DOMAIN scans \ {j} |-> scans[x]]
            /\ results' = {r \in results : r.scan_id # j}
            /\ dirs' = RemoveDir(scans[j].output_dir, rm_ok)

delete(a, j, rm_ok) ==
    /\ a \in Users
    /\ UNCHANGED <<nextScanId, share_tbl, nextResultId, now, profile_tbl, executors>>
    /\ IF j \notin DOMAIN scans
          \/ ~check_scan_access(a, j, "edit").has_access
          \/ (\E s \in shares : s.scan_id = j)
       THEN /\ UNCHANGED <<scans, results, dirs>>
            /\ resp' = Refused("delete", a, j)
       ELSE /\ resp' = DeleteResp(a, j, rm_ok)
            /\ scans' = [x \in DOMAIN scans \ {j} |-> scans[x]]
            /\ results' = {r \in results : r.scan_id # j}
            /\ dirs' = RemoveDir(scans[j].output_dir, rm_ok)

\* ------------------------------------------------------ report regeneration
\* scans.py regenerate_report: edit, an existing output directory, then
\* regenerate_report_task.delay(scan_id).
regenerate_report(a, j) ==
    /\ a \in Users
    /\ UNCHANGED <<scan_tbl, share_tbl, result_tbl, files, now, profile_tbl, tasks, sess>>
    /\ IF j \notin DOMAIN scans
          \/ ~check_scan_access(a, j, "edit").has_access
          \/ ~DirExists(scans[j].output_dir)
       THEN /\ regen' = regen
            /\ resp' = Refused("regenerate_report", a, j)
       ELSE /\ regen' = regen \cup {j}
            /\ resp' = Served("regenerate_report", a, j)

\* tasks.py regenerate_report_task: `kast --report-only` rewrites the report
\* of an existing output directory when it succeeds.
regenerate_report_task(j, ok) ==
    /\ j \in regen
    /\ regen' = regen \ {j}
    /\ resp' = NoResp
    /\ UNCHANGED <<scan_tbl, share_tbl, result_tbl, now, profile_tbl, tasks, sess>>
    /\ dirs' = IF j \in DOMAIN scans /\ DirExists(scans[j].output_dir) /\ ok
               THEN [dirs EXCEPT ![scans[j].output_dir].report = TRUE]
               ELSE dirs

\* ------------------------------------------------- Spec: the job lifecycle
\* An empty store; scans are submitted, run by the Celery worker, re-run
\* through the synchronous executor, polled, shared, transferred and deleted,
\* all within one tick of the clock.
Init ==
    /\ scans = <<>>
    /\ nextScanId = 1
    /\ shares = {}
    /\ nextShareId = 1
    /\ results = {}
    /\ nextResultId = 1
    /\ dirs = <<>>
    /\ now = 0
    /\ tasks = <<>>
    /\ sess = NoSessions
    /\ regen = {}
    /\ resp = NoResp
    /\ profiles = <<>>
    /\ nextProfileId = 1

Submitters == {"power", "user"}
Selections == {{}}

Next ==
    \/ \E a \in Submitters, m \in {"passive", "active"}, p \in Selections,
          q \in BOOLEAN : create_scan(a, m, p, NoProfile, "", q)
    \/ \E j \in ScanIds : worker_start(j, TRUE)
    \/ \E j \in ScanIds : worker_start_error(j)
    \/ \E j \in ScanIds, rc \in {0, 1} : worker_exit(j, rc, "stderr")
    \/ \E j \in ScanIds : worker_timeout(j)
    \/ \E j \in ScanIds : worker_error(j)
    \/ \E j \in ScanIds : proc_write(j, "processed", "pa", DoneDoc)
    \/ \E a \in Submitters, j \in ScanIds : rerun(a, j)
    \/ \E j \in ScanIds : sync_start(j)
    \/ \E j \in ScanIds, rc \in {0, 1} : sync_exit(j, rc, "stderr")
    \/ \E j \in ScanIds : sync_timeout(j)
    \/ \E j \in ScanIds : sync_error(j)
    \/ \E j \in ScanIds : get_scan_status(Anonymous, j)
    \/ \E j \in ScanIds : share_with_user("power", j, "user", "edit", 0)
    \/ \E j \in ScanIds : transfer_ownership("power", j, "user")
    \/ \E a \in Submitters, j \in ScanIds : delete(a, j, TRUE)

Spec == Init /\ [][Next]_vars

\* --------------------------------------------- the parser, step by step
\* A parser pass inside one database session: the glob, then per file a read,
\* a query and an assignment or add held by the session, then one commit.
\* sess[s].pending holds, per file read, the row the query loaded (a set,
\* empty when there was none) and the values computed from the file.
PassStart(j, d, origin, a) ==
    [pc |-> "loop", scan |-> j, dir |-> d, origin |-> origin, actor |-> a,
     todo |-> {u \in FileUnits : processed_exists(d, u)},
     docs |-> [u \in FileUnits |-> Absent], pending |-> {}]

NoPass(j, origin, a) ==
    [pc |-> "parsed", scan |-> j, dir |-> NoDir, origin |-> origin, actor |-> a,
     todo |-> {}, docs |-> [u \in FileUnits |-> Absent], pending |-> {}]

AllIdle == \A s \in Sessions : sess[s].pc = "idle"

\* api.py get_scan_status up to the parser call: a running scan with an
\* output directory starts a pass, any other scan goes on to the response.
get_scan_status_begin(s, a, j) ==
    /\ a \in Actors
    /\ j \in DOMAIN scans
    /\ sess[s].pc = "idle"
    /\ resp' = NoResp
    /\ UNCHANGED <<scan_tbl, share_tbl, result_tbl, files, now, profile_tbl, tasks, regen>>
    /\ sess' = [sess EXCEPT ![s] =
                  IF scans[j].status = "running" /\ scans[j].output_dir # NoDir
                  THEN PassStart(j, scans[j].output_dir, "poll", a)
                  ELSE NoPass(j, "poll", a)]

\* tasks.py execute_scan_task after communicate() returned, up to the parser
\* call: the terminal commit.
worker_exit_begin(j, rc, stderr) ==
    /\ j \in DOMAIN tasks
    /\ tasks[j].kind = "celery" /\ tasks[j].pc = "process"
    /\ sess["worker"].pc = "idle"
    /\ resp' = NoResp
    /\ UNCHANGED <<nextScanId, share_tbl, result_tbl, files, now, profile_tbl, regen>>
    /\ tasks' = [tasks EXCEPT ![j].pc = "done", ![j].alive = FALSE,
                              ![j].returncode = rc, ![j].stderr = stderr]
    /\ IF j \notin DOMAIN scans
       THEN UNCHANGED <<scans, sess>>
       ELSE /\ scans' = [scans EXCEPT ![j] = ExitRow(@, tasks[j].dir, rc, stderr)]
            /\ sess' = [sess EXCEPT !["worker"] =
                          PassStart(j, tasks[j].dir, "worker", NoUser)]

parse_scan_results_step_aborts(s, u) ==
    /\ sess[s].pc = "loop"
    /\ u \in sess[s].todo
    /\ resp' = NoResp
    /\ UNCHANGED <<scan_tbl, share_tbl, result_tbl, files, now, profile_tbl, tasks, regen>>
    /\ LET d == sess[s].dir
           doc == IF processed_exists(d, u) THEN dirs[d].files[u].processed
                  ELSE Absent
       IN  IF doc.state # "ok"
           THEN sess' = [sess EXCEPT ![s].todo = {}]
           ELSE LET new == ResultRow(0, sess[s].scan, d, u, doc)
                    found == FirstResult(results, sess[s].scan, new.plugin_name)
                IN  sess' = [sess EXCEPT
                        ![s].todo = @ \ {u},
                        ![s].docs[u] = doc,
                        ![s].pending = @ \cup
                            {[unit |-> u, existing |-> found, new |-> new]}]

\* One iteration of the loop: the file as it is now, the row as committed now.
parse_scan_results_step(s, u) ==
    /\ sess[s].pc = "loop"
    /\ u \in sess[s].todo
    /\ resp' = NoResp
    /\ UNCHANGED <<scan_tbl, share_tbl, result_tbl, files, now, profile_tbl, tasks, regen>>
    /\ LET d == sess[s].dir
           doc == IF processed_exists(d, u) THEN dirs[d].files[u].processed
                  ELSE Absent
       IN  IF doc.state # "ok"
           THEN sess' = [sess EXCEPT ![s].todo = @ \ {u}]
           ELSE LET new == ResultRow(0, sess[s].scan, d, u, doc)
                    found == FirstResult(results, sess[s].scan, new.plugin_name)
                IN  sess' = [sess EXCEPT
                        ![s].todo = @ \ {u},
                        ![s].docs[u] = doc,
                        ![s].pending = @ \cup
                            {[unit |-> u, existing |-> found, new |-> new]}]

\* The UPDATE of a loaded row sets the columns whose value the pass changed.
Columns == {"status", "findings_count", "processed_output_path", "error_message"}
Flush(current, loaded, target) ==
    [c \in DOMAIN current |->
        IF c \in Columns /\ target[c] # loaded[c] THEN target[c] ELSE current[c]]

RECURSIVE insert_rows(_, _, _)
insert_rows(rows, nid, adds) ==
    IF adds = {} THEN [rows |-> rows, nid |-> nid]
    ELSE LET p == CHOOSE x \in adds : TRUE
         IN  insert_rows(rows \cup {[p.new EXCEPT !.id = nid]}, nid + 1,
                         adds \ {p})

\* db.session.commit() of the pass: the updates by primary key, the inserts
\* with fresh ids.  An update whose row is gone fails the commit as a whole.
Commit(pending) ==
    LET upds == {p \in pending : p.existing # {}}
        adds == {p \in pending : p.existing = {}}
        loaded(p) == CHOOSE r \in p.existing : TRUE
        stale == \E p \in upds : ~\E r \in results : r.id = loaded(p).id
        updated == {IF \E p \in upds : loaded(p).id = r.id
                    THEN LET p == CHOOSE q \in upds : loaded(q).id = r.id
                         IN  Flush(r, loaded(p), UpdateRow(loaded(p), p.new))
                    ELSE r : r \in results}
    IN  IF stale THEN [rows |-> results, nid |-> nextResultId]
        ELSE insert_rows(updated, nextResultId, adds)

parse_scan_results_commit(s) ==
    /\ sess[s].pc = "loop"
    /\ sess[s].todo = {}
    /\ resp' = NoResp
    /\ UNCHANGED <<scan_tbl, share_tbl, files, now, profile_tbl, tasks, regen>>
    /\ LET tbl == Commit(sess[s].pending)
       IN  /\ tbl.nid <= MaxResults + 1
           /\ results' = tbl.rows
           /\ nextResultId' = tbl.nid
    /\ sess' = [sess EXCEPT ![s].pc = "parsed"]

\* The rest of the handler: get_scan_status derives the unit statuses and
\* answers; the worker returns.  The session is removed with the request.
session_end(s) ==
    /\ sess[s].pc = "parsed"
    /\ UNCHANGED <<scan_tbl, share_tbl, result_tbl, files, now, profile_tbl, tasks, regen>>
    /\ sess' = [sess EXCEPT ![s] = IdleSession]
    /\ LET j == sess[s].scan
       IN  resp' = IF sess[s].origin = "poll" /\ j \in DOMAIN scans
                   THEN [op |-> "get_scan_status", actor |-> sess[s].actor,
                         scan |-> j, served |-> TRUE, status |-> scans[j].status,
                         error_message |-> scans[j].error_message,
                         results |-> api_plugin_statuses(results, j)]
                   ELSE NoResp

\* ------------------------------------------- SpecParser: one running scan
\* whose scanner writes artifacts while two polling requests and the worker's
\* terminal parse run their passes in sessions of their own.
RunningTask == [kind |-> "celery", pc |-> "process", dir |-> DoneDir,
                alive |-> TRUE, plugins |-> {}, returncode |-> NoCode,
                stderr |-> "", actor |-> NoUser, origin |-> 0,
                config |-> NoProfile]

InitParser ==
    /\ scans = [j \in {1} |->
                  [ScanRow("user", "t", "passive", {}) EXCEPT
                      !.status = "running", !.output_dir = DoneDir]]
    /\ nextScanId = 2
    /\ shares = {}
    /\ nextShareId = 1
    /\ results = {}
    /\ nextResultId = 1
    /\ dirs = [d \in {DoneDir} |-> EmptyDir]
    /\ now = 0
    /\ tasks = [j \in {1} |-> RunningTask]
    /\ sess = NoSessions
    /\ regen = {}
    /\ resp = NoResp
    /\ profiles = <<>>
    /\ nextProfileId = 1

Polls == {"poll1", "poll2"}

NextParser ==
    \/ \E u \in Units : proc_write(1, "processed", u, DoneDoc)
    \/ \E s \in Polls : get_scan_status_begin(s, Anonymous, 1)
    \/ \E rc \in {0, 1} : worker_exit_begin(1, rc, "stderr")
    \/ worker_timeout(1)
    \/ \E s \in Sessions, u \in Units : parse_scan_results_step(s, u)
    \/ \E s \in Sessions : parse_scan_results_commit(s)
    \/ \E s \in Sessions : session_end(s)

SpecParser == InitParser /\ [][NextParser]_vars

\* ---------------------------------------- SpecSeq: the same, one pass at
\* a time: a pass starts only when no session is inside one.
NextSeq ==
    \/ \E u \in Units, doc \in ProcDocs : proc_write(1, "processed", u, doc)
    \/ \E s \in Polls : AllIdle /\ get_scan_status_begin(s, Anonymous, 1)
    \/ \E rc \in {0, 1} : AllIdle /\ worker_exit_begin(1, rc, "stderr")
    \/ worker_timeout(1)
    \/ \E s \in Sessions, u \in Units : parse_scan_results_step(s, u)
    \/ \E s \in Sessions : parse_scan_results_commit(s)
    \/ \E s \in Sessions : session_end(s)

SpecSeq == InitParser /\ [][NextSeq]_vars

\* ------------------------------------------ SpecShare: one finished scan
\* of a plain user; its owner, a grantee and a stranger share, link, revoke,
\* transfer, re-run, regenerate and delete, and the clock runs grants out.
InitShare ==
    /\ scans = [j \in {1} |->
                  [ScanRow("user", "t", "passive", {}) EXCEPT
                      !.status = "completed", !.output_dir = DoneDir,
                      !.completed_at = 0]]
    /\ nextScanId = 2
    /\ shares = {}
    /\ nextShareId = 1
    /\ results = {ResultRow(1, 1, DoneDir, "pa", DoneDoc)}
    /\ nextResultId = 2
    /\ dirs = [d \in {DoneDir} |->
                 [EmptyDir EXCEPT !.files["pa"].processed = DoneDoc]]
    /\ now = 0
    /\ tasks = [j \in {1} |-> Finished("celery", DoneDir)]
    /\ sess = NoSessions
    /\ regen = {}
    /\ resp = NoResp
    /\ profiles = <<>>
    /\ nextProfileId = 1

Requesters == {"user", "power", "viewer"}

NextShare ==
    \/ \E a \in Requesters, l \in Levels, d \in 0..MaxDays :
          share_with_user(a, 1, "viewer", l, d)
    \/ \E a \in Requesters, d \in 1..MaxDays : generate_public_link(a, 1, d)
    \/ \E a \in Requesters, id \in 1..MaxShares : revoke_share(a, 1, id)
    \/ \E a \in Requesters : transfer_ownership(a, 1, "power")
    \/ \E a \in Requesters : rerun(a, 1)
    \/ \E a \in Requesters : regenerate_report(a, 1)
    \/ \E ok \in BOOLEAN : regenerate_report_task(1, ok)
    \/ \E a \in Requesters, ok \in BOOLEAN : delete(a, 1, ok)
    \/ Tick

SpecShare == InitShare /\ [][NextShare]_vars

\* ------------------------------------- SpecStatus: two scans of one target
\* started in the same second, so that they share an output directory: one
\* passive (with or without a selection), one active without a selection.
\* Their scanners write artifacts while the status routes are polled.
InitStatus ==
    /\ \E sel \in {{}, {"pa"}} :
         /\ scans = [j \in {1, 2} |->
               [ScanRow(IF j = 1 THEN "user" ELSE "power", "t",
                        IF j = 1 THEN "passive" ELSE "active",
                        IF j = 1 THEN sel ELSE {}) EXCEPT
                   !.status = "running", !.output_dir = DoneDir]]
         /\ tasks = [j \in {1, 2} |->
               [RunningTask EXCEPT !.plugins = IF j = 1 THEN sel ELSE {}]]
    /\ nextScanId = 3
    /\ shares = {}
    /\ nextShareId = 1
    /\ results = {}
    /\ nextResultId = 1
    /\ dirs = [d \in {DoneDir} |-> EmptyDir]
    /\ now = 0
    /\ sess = NoSessions
    /\ regen = {}
    /\ resp = NoResp
    /\ profiles = <<>>
    /\ nextProfileId = 1

NextStatus ==
    \/ \E j \in {1, 2}, w \in {"raw", "processed"}, u \in Units,
          doc \in {DoneDoc, Malformed} : proc_write(j, w, u, doc)
    \/ \E j \in {1, 2} : get_scan_status(Anonymous, j)
    \/ \E j \in {1, 2} : detail(scans[j].user_id, j)
    \/ \E j \in {1, 2} : worker_exit(j, 0, "")
    \/ \E j \in {1, 2} : worker_timeout(j)

SpecStatus == InitStatus /\ [][NextStatus]_vars

\* ------------------------------------------ SpecSubmit: an empty scans
\* table and two profiles, one open to standard users and one closed; scans
\* are submitted with every mode, selection, profile and override string,
\* re-run and transferred.
OpenProfile == 1
ClosedProfile == 2
InitSubmit ==
    /\ scans = <<>>
    /\ nextScanId = 1
    /\ shares = {}
    /\ nextShareId = 1
    /\ results = {}
    /\ nextResultId = 1
    /\ dirs = <<>>
    /\ now = 0
    /\ tasks = <<>>
    /\ sess = NoSessions
    /\ regen = {}
    /\ resp = NoResp
    /\ profiles = (OpenProfile :> ProfileRow(<<"p", 0>>, "yaml", "admin", TRUE, TRUE))
                  @@ (ClosedProfile :> ProfileRow(<<"q", 0>>, "yaml", "admin", FALSE, FALSE))
    /\ nextProfileId = 3

SubmitActors == {"power", "user"}
SubmitSelections == {{}, {"ac"}}
SubmitOverrides == {"", "k=v"}

NextSubmit ==
    \/ \E a \in SubmitActors, m \in {"passive", "active"}, p \in SubmitSelections,
          c \in {NoProfile, OpenProfile, ClosedProfile}, o \in SubmitOverrides :
          create_scan(a, m, p, c, o, TRUE)
    \/ \E a \in SubmitActors, j \in ScanIds : rerun(a, j)
    \/ \E j \in ScanIds : transfer_ownership("power", j, "user")

SpecSubmit == InitSubmit /\ [][NextSubmit]_vars

\* ---------------------------------------- SpecProfiles: an empty store;
\* profiles are created, renamed and edited, duplicated and deleted by a
\* power user and a standard user, and scans are submitted with them.
ProfileActors == {"power", "user"}
ProfileNames == {<<"p", 0>>, <<"q", 0>>}

NextProfiles ==
    \/ \E a \in ProfileActors, n \in ProfileNames, y, al, df \in BOOLEAN :
          create_profile(a, n, y, al, df)
    \/ \E a \in ProfileActors, id \in 1..MaxProfiles, n \in ProfileNames,
          y, df \in BOOLEAN : edit_profile(a, id, n, y, FALSE, df)
    \/ \E a \in ProfileActors, id \in 1..MaxProfiles : delete_profile(a, id)
    \/ \E a \in ProfileActors, id \in 1..MaxProfiles : duplicate_profile(a, id)
    \/ create_scan("power", "passive", {}, 1, "", FALSE)

SpecProfiles == Init /\ [][NextProfiles]_vars

\* ------------------------------------------- SpecRun: an empty store; a
\* power user submits and re-runs scans of one target while the clock runs;
\* the Celery worker and the synchronous executor start the scanner, which
\* writes artifacts and exits with either code and with or without stderr,
\* times out, or fails to start.
Stderrs == {"", "boom"}

NextRun ==
    \/ create_scan("power", "passive", {}, NoProfile, "", TRUE)
    \/ \E j \in ScanIds : rerun("power", j)
    \/ \E j \in ScanIds : worker_start(j, TRUE)
    \/ \E j \in ScanIds : worker_start_error(j)
    \/ \E j \in ScanIds, rc \in {0, 1}, e \in Stderrs : worker_exit(j, rc, e)
    \/ \E j \in ScanIds : worker_timeout(j)
    \/ \E j \in ScanIds : worker_error(j)
    \/ \E j \in ScanIds : proc_write(j, "processed", "pa", DoneDoc)
    \/ \E j \in ScanIds : sync_start(j)
    \/ \E j \in ScanIds, rc \in {0, 1}, e \in Stderrs : sync_exit(j, rc, e)
    \/ \E j \in ScanIds : sync_timeout(j)
    \/ \E j \in ScanIds : sync_error(j)
    \/ Tick

SpecRun == Init /\ [][NextRun]_vars

\* ------------------------------------------ SpecRerun: one finished scan
\* of any mode, selection and flags, with its result row, its artifacts and an
\* edit grant, at a later second than its run; it is re-run by its owner, the
\* grantee or a viewer, and the synchronous executor runs the new scan to
\* every outcome while the status of either scan is read.
InitRerun ==
    /\ \E m \in {"passive", "active"}, sel \in {{}, {"pa"}}, f \in [1..3 -> BOOLEAN] :
         scans = [j \in {1} |->
                    [ScanRow("power", "t", m, sel) EXCEPT
                        !.status = "completed", !.output_dir = DoneDir,
                        !.completed_at = 0, !.parallel = f[1],
                        !.verbose = f[2], !.dry_run = f[3]]]
    /\ nextScanId = 2
    /\ shares = {UserShare(1, 1, "user", "edit", "power", 0)}
    /\ nextShareId = 2
    /\ results = {ResultRow(1, 1, DoneDir, "pa", DoneDoc)}
    /\ nextResultId = 2
    /\ dirs = [d \in {DoneDir} |->
                 [EmptyDir EXCEPT !.report = TRUE,
                                  !.files["pa"].processed = DoneDoc]]
    /\ now = 1
    /\ tasks = [j \in {1} |-> Finished("celery", DoneDir)]
    /\ sess = NoSessions
    /\ regen = {}
    /\ resp = NoResp
    /\ profiles = <<>>
    /\ nextProfileId = 1

NextRerun ==
    \/ \E a \in Requesters, j \in ScanIds : rerun(a, j)
    \/ \E j \in ScanIds : sync_start(j)
    \/ \E j \in ScanIds, rc \in {0, 1}, e \in Stderrs : sync_exit(j, rc, e)
    \/ \E j \in ScanIds : sync_timeout(j)
    \/ \E j \in ScanIds : sync_error(j)
    \/ \E j \in ScanIds, u \in Units : proc_write(j, "processed", u, DoneDoc)
    \/ \E j \in ScanIds : get_scan_status(Anonymous, j)

SpecRerun == InitRerun /\ [][NextRerun]_vars

\* --------------------------------------- SpecArtifact: one running scan
\* whose directory holds one processed artifact of any content the parser
\* tells apart: either disposition, findings missing, a dict or a list, any
\* subset of the error keys (one of them possibly over the length limit),
\* with or without a plugin_name key.  The status query and the worker's
\* terminal parse read it.
ErrMaps ==
    {[k \in ErrKeys |-> IF k \in S THEN k ELSE ""] : S \in SUBSET ErrKeys}
    \cup {[NoErrs EXCEPT ![k] = "long"] : k \in ErrKeys}
ErrMapsOf(sh) ==
    {x \in ErrMaps : sh # "dict" => (x["f_error"] = "" /\ x["f_message"] = "")}
ArtifactDocs ==
    UNION {{[Doc(dp, sh, 0, e) EXCEPT !.plugin_name = n] :
               dp \in {"fail", "success"}, n \in {"", "ac"}, e \in ErrMapsOf(sh)} :
           sh \in {"missing", "dict", "list"}}

InitArtifact ==
    /\ scans = [j \in {1} |->
                  [ScanRow("user", "t", "passive", {}) EXCEPT
                      !.status = "running", !.output_dir = DoneDir]]
    /\ nextScanId = 2
    /\ shares = {}
    /\ nextShareId = 1
    /\ results = {}
    /\ nextResultId = 1
    /\ \E doc \in ArtifactDocs :
         dirs = [d \in {DoneDir} |->
                   [EmptyDir EXCEPT !.files["pa"].processed = doc]]
    /\ now = 0
    /\ tasks = [j \in {1} |-> RunningTask]
    /\ sess = NoSessions
    /\ regen = {}
    /\ resp = NoResp
    /\ profiles = <<>>
    /\ nextProfileId = 1

NextArtifact ==
    \/ get_scan_status(Anonymous, 1)
    \/ \E rc \in {0, 1} : worker_exit(1, rc, "")
    \/ worker_timeout(1)

SpecArtifact == InitArtifact /\ [][NextArtifact]_vars

\* ------------------------------------------- SpecConfig: an empty scans
\* table and two profiles, the first of which may hold the system-default
\* flag; scans are submitted with no profile or with either profile, and the
\* worker starts each with the profile's temporary file written or not and
\* runs it to an exit, a timeout or an error.
InitConfig ==
    /\ scans = <<>>
    /\ nextScanId = 1
    /\ shares = {}
    /\ nextShareId = 1
    /\ results = {}
    /\ nextResultId = 1
    /\ dirs = <<>>
    /\ now = 0
    /\ tasks = <<>>
    /\ sess = NoSessions
    /\ regen = {}
    /\ resp = NoResp
    /\ \E dflt \in BOOLEAN :
         profiles = (OpenProfile :> ProfileRow(<<"p", 0>>, "yaml", "admin", TRUE, dflt))
                    @@ (ClosedProfile :> ProfileRow(<<"q", 0>>, "yaml", "admin", FALSE, FALSE))
    /\ nextProfileId = 3

NextConfig ==
    \/ \E a \in SubmitActors, p \in {NoProfile, OpenProfile, ClosedProfile} :
          create_scan(a, "passive", {}, p, "", TRUE)
    \/ \E j \in ScanIds, w \in BOOLEAN : worker_start(j, w)
    \/ \E j \in ScanIds : worker_start_error(j)
    \/ \E j \in ScanIds, rc \in {0, 1} : worker_exit(j, rc, "")
    \/ \E j \in ScanIds : worker_timeout(j)
    \/ \E j \in ScanIds : worker_error(j)

SpecConfig == InitConfig /\ [][NextConfig]_vars

\* ------------------------------------------ SpecHandoff: scans are
\* submitted, the hand-off to Celery succeeding or raising, and a fairly
\* scheduled worker takes each queued task up and waits for its scanner,
\* which exits or runs into the timeout.
NextHandoff ==
    \/ \E a \in SubmitActors, q \in BOOLEAN :
          create_scan(a, "passive", {}, NoProfile, "", q)
    \/ \E j \in ScanIds : worker_start(j, TRUE)
    \/ \E j \in ScanIds : worker_start_error(j)
    \/ \E j \in ScanIds, rc \in {0, 1}, e \in Stderrs : worker_exit(j, rc, e)
    \/ \E j \in ScanIds : worker_timeout(j)
    \/ \E j \in ScanIds : worker_error(j)
    \/ \E j \in ScanIds : proc_write(j, "processed", "pa", DoneDoc)

\* The worker pool takes up every queued task, and every wait for a scanner
\* ends: with its exit, with the timeout or with an exception.
WorkerFair ==
    \A j \in ScanIds :
        /\ WF_vars(worker_start(j, TRUE) \/ worker_start_error(j))
        /\ WF_vars((\E rc \in {0, 1}, e \in Stderrs : worker_exit(j, rc, e))
                      \/ worker_timeout(j) \/ worker_error(j))

SpecHandoff == Init /\ [][NextHandoff]_vars /\ WorkerFair

\* ------------------------------------------ SpecLost: the same with every
\* hand-off succeeding and with a worker that can be lost while it waits for
\* the scanner.
NextLost ==
    \/ \E a \in SubmitActors : create_scan(a, "passive", {}, NoProfile, "", TRUE)
    \/ \E j \in ScanIds : worker_start(j, TRUE)
    \/ \E j \in ScanIds : worker_start_error(j)
    \/ \E j \in ScanIds, rc \in {0, 1}, e \in Stderrs : worker_exit(j, rc, e)
    \/ \E j \in ScanIds : worker_timeout(j)
    \/ \E j \in ScanIds : worker_error(j)
    \/ \E j \in ScanIds, child \in BOOLEAN : worker_lost(j, child)
    \/ \E j \in ScanIds : proc_write(j, "processed", "pa", DoneDoc)
    \/ \E j \in ScanIds : get_scan_status(Anonymous, j)

SpecLost == Init /\ [][NextLost]_vars /\ WorkerFair

\* ------------------------------------------ SpecDiscover: one running
\* scan without a selection whose scanner writes raw and processed artifacts
\* of every unit name, the report's JSON file and a temporary JSON file,
\* while the status query and the scan page are read.
NextDiscover ==
    \/ \E w \in {"raw", "processed"}, u \in FileUnits : proc_write(1, w, u, DoneDoc)
    \/ \E n \in ExtraNames : proc_write(1, "json", n, DoneDoc)
    \/ get_scan_status(Anonymous, 1)
    \/ detail("user", 1)

SpecDiscover == InitParser /\ [][NextDiscover]_vars

\* ------------------------------------------ the status read, step by step
\* api.py get_scan_status as the handler runs it: the parser pass and the
\* listing of candidate units, then one round of existence checks per listed
\* unit, then the answer.  The scanner may write between any two steps.
get_scan_status_list(s, a, j) ==
    /\ a \in Actors
    /\ j \in DOMAIN scans
    /\ AllIdle
    /\ resp' = NoResp
    /\ UNCHANGED <<scan_tbl, share_tbl, files, now, profile_tbl, tasks, regen>>
    /\ LET tbl == IF scans[j].status = "running" /\ scans[j].output_dir # NoDir
                  THEN parse_scan_results(j, scans[j].output_dir)
                  ELSE [rows |-> results, nid |-> nextResultId]
       IN  /\ tbl.nid <= MaxResults + 1
           /\ results' = tbl.rows
           /\ nextResultId' = tbl.nid
           /\ sess' = [sess EXCEPT ![s] =
                         [pc |-> "checks", scan |-> j, actor |-> a,
                          rows |-> tbl.rows, todo |-> plugin_list(j),
                          statuses |-> {}]]

get_scan_status_check(s, u) ==
    /\ sess[s].pc = "checks"
    /\ u \in sess[s].todo
    /\ resp' = NoResp
    /\ UNCHANGED <<scan_tbl, share_tbl, result_tbl, files, now, profile_tbl, tasks, regen>>
    /\ sess' = [sess EXCEPT
                  ![s].todo = @ \ {u},
                  ![s].statuses = @ \cup {plugin_status(sess[s].rows, sess[s].scan, u)}]

get_scan_status_answer(s) ==
    /\ sess[s].pc = "checks"
    /\ sess[s].todo = {}
    /\ UNCHANGED <<scan_tbl, share_tbl, result_tbl, files, now, profile_tbl, tasks, regen>>
    /\ sess' = [sess EXCEPT ![s] = IdleSession]
    /\ LET j == sess[s].scan
       IN  resp' = [op |-> "get_scan_status", actor |-> sess[s].actor, scan |-> j,
                   served |-> TRUE, status |-> scans[j].status,
                   error_message |-> scans[j].error_message,
                   results |-> sess[s].statuses]

\* ------------------------------------------- SpecPoll: one running scan,
\* with or without a selection, whose scanner only adds artifacts while
\* status reads follow one another.
InitPoll ==
    /\ \E sel \in {{}, Units} :
          scans = [j \in {1} |->
                     [ScanRow("user", "t", "active", sel) EXCEPT
                         !.status = "running", !.output_dir = DoneDir]]
    /\ nextScanId = 2
    /\ shares = {}
    /\ nextShareId = 1
    /\ results = {}
    /\ nextResultId = 1
    /\ dirs = [d \in {DoneDir} |-> EmptyDir]
    /\ now = 0
    /\ tasks = [j \in {1} |-> RunningTask]
    /\ sess = NoSessions
    /\ regen = {}
    /\ resp = NoResp
    /\ profiles = <<>>
    /\ nextProfileId = 1

NextPoll ==
    \/ \E w \in {"raw", "processed"}, u \in FileUnits : proc_write(1, w, u, DoneDoc)
    \/ get_scan_status_list("poll1", Anonymous, 1)
    \/ \E u \in FileUnits : get_scan_status_check("poll1", u)
    \/ get_scan_status_answer("poll1")

SpecPoll == InitPoll /\ [][NextPoll]_vars

\* ------------------------------------------ SpecViewer: an empty scans
\* table and two profiles; a standard user and a viewer submit scans, the
\* user shares scans with the viewer, both re-run them, the worker runs them.
ViewerActors == {"user", "viewer"}
NextViewer ==
    \/ \E a \in ViewerActors, m \in {"passive", "active"},
          c \in {NoProfile, OpenProfile, ClosedProfile} :
          create_scan(a, m, {}, c, "", TRUE)
    \/ \E a \in ViewerActors, j \in ScanIds : rerun(a, j)
    \/ \E j \in ScanIds, lvl \in Levels : share_with_user("user", j, "viewer", lvl, 0)
    \/ \E j \in ScanIds : worker_start(j, TRUE)
    \/ \E j \in ScanIds : worker_exit(j, 0, "")

SpecViewer == InitSubmit /\ [][NextViewer]_vars

\* ------------------------------------------ SpecOrphan: one running scan
\* whose scanner writes an artifact while a polling request and the worker's
\* terminal parse run their passes and the owner deletes the scan between
\* any two of their steps.
NextOrphan ==
    \/ proc_write(1, "processed", "pa", DoneDoc)
    \/ get_scan_status_begin("poll1", Anonymous, 1)
    \/ \E rc \in {0, 1} : worker_exit_begin(1, rc, "stderr")
    \/ worker_timeout(1)
    \/ \E s \in Sessions, u \in Units : parse_scan_results_step(s, u)
    \/ \E s \in Sessions : parse_scan_results_commit(s)
    \/ \E s \in Sessions : session_end(s)
    \/ \E ok \in BOOLEAN : delete("user", 1, ok)

SpecOrphan == InitParser /\ [][NextOrphan]_vars

\* ------------------------------------------ sharing, step by step
\* scans.py share_with_user inside one request: the access check and the
\* query for an existing grant, then the assignment or the add and the
\* commit.  sess[s].existing holds the row the query loaded.
share_with_user_query(s, a, j, user_id, level, days) ==
    /\ a \in Users
    /\ j \in DOMAIN scans
    /\ check_scan_access(a, j, "edit").has_access
    /\ user_id \in Users \ {scans[j].user_id}
    /\ sess[s].pc = "idle"
    /\ resp' = NoResp
    /\ UNCHANGED <<scan_tbl, share_tbl, result_tbl, files, now, profile_tbl, tasks, regen>>
    /\ sess' = [sess EXCEPT ![s] =
                  [pc |-> "share", actor |-> a, scan |-> j, user_id |-> user_id,
                   level |-> level, days |-> days,
                   existing |-> FirstShare(j, user_id)]]

share_with_user_commit(s) ==
    /\ sess[s].pc = "share"
    /\ UNCHANGED <<scan_tbl, result_tbl, files, now, profile_tbl, tasks, regen>>
    /\ sess' = [sess EXCEPT ![s] = IdleSession]
    /\ LET q == sess[s]
           loaded == CHOOSE x \in q.existing : TRUE
       IN  IF q.existing # {}
           THEN /\ UNCHANGED nextShareId
                /\ IF \E x \in shares : x.id = loaded.id
                   THEN /\ shares' = {IF x.id = loaded.id
                                      THEN [x EXCEPT !.permission_level = q.level,
                                                     !.expires_at = ExpiresAt(q.days)]
                                      ELSE x : x \in shares}
                        /\ resp' = Served("share_with_user", q.actor, q.scan)
                   ELSE /\ shares' = shares
                        /\ resp' = Refused("share_with_user", q.actor, q.scan)
           ELSE /\ nextShareId <= MaxShares
                /\ shares' = shares \cup
                      {UserShare(nextShareId, q.scan, q.user_id, q.level, q.actor,
                                 q.days)}
                /\ nextShareId' = nextShareId + 1
                /\ resp' = Served("share_with_user", q.actor, q.scan)

\* ------------------------------------------ SpecGrant: one finished scan
\* whose owner shares it with one user from two requests that may overlap,
\* revokes grants, and the grantee opens the scan.
NextGrant ==
    \/ \E s \in Polls, l \in Levels :
          share_with_user_query(s, "user", 1, "viewer", l, 0)
    \/ \E s \in Polls : share_with_user_commit(s)
    \/ \E id \in 1..MaxShares : revoke_share("user", 1, id)
    \/ resolve("viewer", 1, "edit")

SpecGrant == InitShare /\ [][NextGrant]_vars

\* ================================================================ claims
\* The level the access rules of the design give actor a on scan j:
\* administrator, then owner, then a grant that has not expired, else none.
LiveGrants(a, j) == {s \in SharesFor(j, a) : ~is_expired(s)}
Resolution(a, j) ==
    IF a \in Users /\ role(a) = "admin" THEN "edit"
    ELSE IF a \in Users /\ scans[j].user_id = a THEN "edit"
    ELSE IF a \in Users /\ LiveGrants(a, j) # {}
         THEN (CHOOSE s \in LiveGrants(a, j) : TRUE).permission_level
    ELSE "none"
Satisfies(level, required) ==
    level = "edit" \/ (level = "view" /\ required = "view")

\* C1 as stated: every status change of a scan is one of pending -> running,
\* running -> completed, running -> failed.
Alive(j) == j \in DOMAIN scans /\ j \in DOMAIN scans'
C1_OnlyThroughRunning ==
    [][\A j \in ScanIds : Alive(j) =>
          \/ scans'[j].status = scans[j].status
          \/ <<scans[j].status, scans'[j].status>> \in
                {<<"pending", "running">>, <<"running", "completed">>,
                 <<"running", "failed">>}]_vars

\* C1: every status change of a scan is one of pending -> running,
\* running -> completed, running -> failed, or pending -> failed when the
\* worker fails before it marks the scan running; a completed or failed scan
\* never changes status again and a running scan never returns to pending.
C1_StatusForward ==
    [][\A j \in ScanIds : Alive(j) =>
          \/ scans'[j].status = scans[j].status
          \/ <<scans[j].status, scans'[j].status>> \in
                {<<"pending", "running">>, <<"running", "completed">>,
                 <<"running", "failed">>, <<"pending", "failed">>}]_vars

\* A scan the worker failed before marking it running stands next to a scan
\* that ran to a terminal status.
C1_Witness ==
    \E j, k \in DOMAIN scans :
        /\ scans[j].status = "failed" /\ scans[j].output_dir = NoDir
        /\ tasks[j].kind = "celery"
        /\ scans[k].status \in {"completed", "failed"}
        /\ scans[k].output_dir # NoDir

\* C2: however parser passes of one scan interleave, the table never holds
\* two result rows of the same scan and plugin name.
C2_OneRowPerUnit ==
    \A r, t \in results :
        (r.scan_id = t.scan_id /\ r.plugin_name = t.plugin_name) => r = t

\* C3: after a pass that follows another pass of the same scan and directory
\* in sequence, every artifact the pass read has exactly one result row, and
\* the row's status, finding count and error message are those of the file
\* as the pass read it (the values of the earlier pass are overwritten, an
\* error message being cleared when the disposition is no longer fail).
RowsOf(j, u) == {r \in results : r.scan_id = j /\ r.plugin_name = u}
C3_SecondPassWins ==
    \A s \in Sessions : sess[s].pc = "parsed" =>
        \A u \in Units : sess[s].docs[u].state = "ok" =>
            LET doc == sess[s].docs[u]
            IN  /\ Cardinality(RowsOf(sess[s].scan, u)) = 1
                /\ \A r \in RowsOf(sess[s].scan, u) :
                     /\ r.status = disposition_of(doc)
                     /\ r.findings_count = findings_count_of(doc)
                     /\ r.error_message =
                            extract_plugin_error(doc, disposition_of(doc))

\* A second pass has committed over a row an earlier pass had recorded as
\* failed with an error message: the row now says success, with no message.
C3_Witness ==
    \E s \in Sessions : sess[s].pc = "parsed" /\
        \E p \in sess[s].pending :
            /\ \E old \in p.existing :
                 old.status = "fail" /\ old.error_message = "timeout"
            /\ p.new.status = "success"
            /\ \A r \in RowsOf(sess[s].scan, p.unit) :
                 r.status = "success" /\ r.error_message = NoError

\* C4 as stated: a served status answer lists as completed every unit with
\* a processed artifact in the scan's output directory.
ReportsCompleted(u) ==
    \E e \in resp.results : e.plugin_name = u /\ e.status = "completed"
StatusAnswer ==
    resp.op \in {"get_scan_status", "detail"} /\ resp.served
C4_ProcessedCompleted ==
    StatusAnswer =>
        \A u \in Units :
            processed_exists(scans[resp.scan].output_dir, u) => ReportsCompleted(u)

\* C4: a served status answer lists as completed every candidate unit with a
\* processed artifact in the scan's output directory, whether the parser has
\* recorded a result row for it or not.  The candidates are the units of the
\* explicit selection when the scan named one, otherwise every unit with an
\* artifact; the scan page leaves out active units of a passive scan.
Candidate(op, j, u) ==
    /\ scans[j].plugins = {} \/ u \in scans[j].plugins
    /\ op = "detail" =>
          ~(scans[j].scan_mode = "passive" /\ plugin_types(u) = "active")
C4_CandidateCompleted ==
    StatusAnswer =>
        \A u \in Units :
            (/\ processed_exists(scans[resp.scan].output_dir, u)
             /\ Candidate(resp.op, resp.scan, u)) => ReportsCompleted(u)

\* The status query answered completed for the selected unit of a scan with
\* an explicit selection while no result row of that unit was recorded.
C4_Witness ==
    /\ resp.op = "get_scan_status" /\ resp.served
    /\ \E u \in Units :
         /\ scans[resp.scan].plugins = {u}
         /\ processed_exists(scans[resp.scan].output_dir, u)
         /\ RowsOf(resp.scan, u) = {}
         /\ ReportsCompleted(u)

\* C5: for an actor who is neither administrator nor owner and whose only
\* grant on the scan has expired, access resolution refuses a view request
\* and an edit request alike, whatever level the grant declares.
C5_ExpiredGrantNoAccess ==
    (/\ resp.op = "check_scan_access"
     /\ ~is_admin(resp.actor)
     /\ scans[resp.scan].user_id # resp.actor
     /\ SharesFor(resp.scan, resp.actor) # {}
     /\ \A s \in SharesFor(resp.scan, resp.actor) : is_expired(s))
    => resp.result = Denied

\* An expired edit grant was resolved for a view request.
C5_Witness ==
    /\ resp.op = "check_scan_access"
    /\ resp.required = "view"
    /\ ~is_admin(resp.actor)
    /\ scans[resp.scan].user_id # resp.actor
    /\ \E s \in SharesFor(resp.scan, resp.actor) :
         s.permission_level = "edit" /\ is_expired(s)

\* C6: every share row without a grantee (a public link) has the level
\* view, whatever links and user shares were created, updated and revoked.
C6_PublicIsView ==
    \A s \in shares : is_public(s) => s.permission_level = "view"

\* A public link stands next to a user share of level edit.
C6_Witness ==
    /\ \E s \in shares : is_public(s) /\ s.permission_level = "view"
    /\ \E s \in shares : ~is_public(s) /\ s.permission_level = "edit"

\* C7: access resolution returns edit for an administrator and for the
\* owner whatever the grants, otherwise the declared level of the grant that
\* has not expired (edit also serves a view request, view does not serve an
\* edit request), otherwise no access.
C7_ResolutionOrder ==
    resp.op = "check_scan_access" =>
        LET level == Resolution(resp.actor, resp.scan)
        IN  IF Satisfies(level, resp.required)
            THEN resp.result = Granted(level)
            ELSE resp.result = Denied

\* A live view grant was resolved for an edit request (and refused), the
\* scan's owner holding no grant.
C7_Witness ==
    /\ resp.op = "check_scan_access"
    /\ resp.required = "edit"
    /\ Resolution(resp.actor, resp.scan) = "view"
    /\ resp.result = Denied

\* C8: a step that answers a delete, re-run, share, public-link, revoke,
\* transfer or regenerate request of an actor whose access resolution on the
\* scan is not edit leaves the tables, the output directories, the executors
\* and the regeneration queue unchanged.
MutatingOps == {"delete", "rerun", "share_with_user", "generate_public_link",
                "revoke_share", "transfer_ownership", "regenerate_report"}
ScanReadOps == {"detail", "list_files", "view_report", "download_report",
                "serve_scan_file", "view_file"}
C9_ReadsRequireView ==
    (resp.op \in ScanReadOps /\ resp.served)
    => Resolution(resp.actor, resp.scan) # "none"

\* C10: the job read API and the status query API return a scan's status,
\* error message and results only to an actor whose access resolution gives
\* at least view.
C10_ApiRequiresView ==
    (resp.op \in {"get_scan", "get_scan_status"} /\ resp.served)
    => Resolution(resp.actor, resp.scan) # "none"

OwnerOrAdmin(a, j) == is_admin(a) \/ (j \in DOMAIN scans /\ scans[j].user_id = a)

\* C11: a step that adds a share row of a scan (a user grant or a public
\* link) or rewrites the level or expiry of one answers a request of the
\* scan's owner or of an administrator; an actor who reaches the scan only
\* through a grant never adds or rewrites a share row.
C11_GrantsByOwnerOrAdmin ==
    [][(\E s \in shares' : s \notin shares)
       => /\ resp'.op \in {"share_with_user", "generate_public_link"}
          /\ OwnerOrAdmin(resp'.actor, resp'.scan)]_vars

\* C12: a step that answers a transfer request leaves the share rows, the
\* result rows and the output directories as they were; when the transfer is
\* served the scan row differs from the old one in user_id only (status and
\* output_dir are kept), and when it is refused the scans table is unchanged.
C12_TransferChangesOwnerOnly ==
    [][resp'.op = "transfer_ownership" =>
          /\ UNCHANGED <<shares, nextShareId, results, nextResultId, dirs,
                         nextScanId, tasks, regen>>
          /\ IF resp'.served
             THEN LET j == resp'.scan
                  IN  /\ scans' = [scans EXCEPT ![j].user_id = scans'[j].user_id]
                      /\ scans'[j].user_id # scans[j].user_id
             ELSE scans' = scans]_vars

\* A scan with a user grant, a public link and a result row was transferred
\* to its new owner, and the rows are all still there.
C12_Witness ==
    /\ resp.op = "transfer_ownership" /\ resp.served
    /\ scans[resp.scan].user_id = "power"
    /\ scans[resp.scan].status = "completed"
    /\ \E s \in shares : s.scan_id = resp.scan /\ ~is_public(s)
    /\ \E s \in shares : s.scan_id = resp.scan /\ is_public(s)
    /\ \E r \in results : r.scan_id = resp.scan

Elevated(a) == a \in Users /\ role(a) \in {"admin", "power_user"}

\* C13: every scan row a step adds in active mode belongs to a requester
\* with role admin or power_user, and a submit or re-run request for an
\* active scan by any other requester is refused and adds no scan row.
C13_ActiveNeedsCapability ==
    [][/\ \A j \in DOMAIN scans' \ DOMAIN scans :
            scans'[j].scan_mode = "active" => Elevated(scans'[j].user_id)
       /\ (/\ resp'.op = "create_scan"
           /\ resp'.mode = "active"
           /\ ~Elevated(resp'.actor))
          => (~resp'.served /\ UNCHANGED <<scans, nextScanId, tasks>>)
       /\ (/\ resp'.op = "rerun"
           /\ resp'.scan \in DOMAIN scans
           /\ scans[resp'.scan].scan_mode = "active"
           /\ ~Elevated(resp'.actor))
          => (~resp'.served /\ UNCHANGED <<scans, nextScanId, tasks>>)]_vars

\* A standard user who owns an active scan (it was transferred to them)
\* asked to re-run it and was refused.
C13_Witness ==
    /\ resp.op = "rerun" /\ ~resp.served
    /\ resp.scan \in DOMAIN scans
    /\ scans[resp.scan].scan_mode = "active"
    /\ scans[resp.scan].user_id = resp.actor
    /\ ~Elevated(resp.actor)

\* C14: a step that answers a submit request in passive mode whose selection
\* holds an active-only unit refuses it and leaves the scans table and the
\* executors as they were: no row is persisted, no worker is started.
C14_PassiveRejectsActiveUnit ==
    [][(/\ resp'.op = "create_scan"
        /\ resp'.mode = "passive"
        /\ \E u \in resp'.plugins : plugin_types(u) = "active")
       => (/\ ~resp'.served
           /\ UNCHANGED <<scans, nextScanId, tasks>>)]_vars

\* A power user, who may run active scans, submitted a passive scan selecting
\* the active unit together with a profile they may use, and was refused.
C14_Witness ==
    /\ resp.op = "create_scan" /\ ~resp.served
    /\ resp.actor = "power"
    /\ resp.mode = "passive"
    /\ resp.plugins = {"ac"}
    /\ resp.profile = OpenProfile

\* C15: a step that answers a submit request carrying a non-empty override
\* string from a requester who is neither admin nor power user refuses it and
\* adds no scan row, with or without a profile the requester may use.
C15_OverridesRejected ==
    [][(/\ resp'.op = "create_scan"
        /\ resp'.overrides # ""
        /\ ~Elevated(resp'.actor))
       => (/\ ~resp'.served
           /\ UNCHANGED <<scans, nextScanId, tasks>>)]_vars

\* C16: whatever profiles were created, edited, duplicated and deleted, at
\* most one profile row has the system-default flag set; a save with the
\* flag set resets the flag of the previous holder in the same commit.
C16_OneDefault == Cardinality(Holders(profiles)) <= 1

\* An edit set the flag on a profile while another profile held it: the
\* flag of the previous holder was reset and the edited profile holds it.
C16_Witness ==
    /\ resp.op = "edit_profile" /\ resp.served
    /\ resp.cleared # {}
    /\ \A id \in resp.cleared : id \in DOMAIN profiles
    /\ Holders(profiles) = {resp.profile}

\* C17: any two scans of the same target whose scanners are running at the
\* same time were given different output directories.
C17_DistinctDirs ==
    \A j, k \in DOMAIN tasks :
        (/\ j # k
         /\ j \in DOMAIN scans /\ k \in DOMAIN scans
         /\ scans[j].target = scans[k].target
         /\ tasks[j].pc = "process" /\ tasks[k].pc = "process")
        => tasks[j].dir # tasks[k].dir

\* C18: whenever the scanner of a scan has been started (it is running or
\* it has exited, timed out or failed), the scan's committed row has its
\* output directory set, on the Celery path and on the re-run path.
C18_DirBeforeProcess ==
    \A j \in DOMAIN tasks \cap DOMAIN scans :
        tasks[j].dir # NoDir => scans[j].output_dir # NoDir

\* C19: a scan that is failed with the timeout message has no scanner
\* process running any more, has its completion time set, and the
\* artifacts of its directory are still there.
TimeoutMessage == "Scan timed out after 1 hour"
C19_TimeoutKillsChild ==
    /\ [](\A j \in DOMAIN tasks \cap DOMAIN scans :
            (scans[j].status = "failed" /\ scans[j].error_message = TimeoutMessage)
            => (~tasks[j].alive /\ scans[j].completed_at # NoTime))
    /\ [][\A j \in DOMAIN scans \cap DOMAIN scans' :
            (/\ scans[j].error_message # TimeoutMessage
             /\ scans'[j].error_message = TimeoutMessage)
            => (scans'[j].status = "failed" /\ dirs' = dirs)]_vars

\* C20: once the executor has collected the scanner's return code, the scan
\* is completed exactly when the code is zero; for any other code it is
\* failed and its error message is the captured stderr, or the fixed
\* placeholder when stderr is empty; either way the completion time is set,
\* and a completed scan has no error message.
C20_ExitCodeDecides ==
    \A j \in DOMAIN tasks \cap DOMAIN scans :
        tasks[j].returncode # NoCode =>
            /\ scans[j].status = "completed" <=> tasks[j].returncode = 0
            /\ tasks[j].returncode # 0 =>
                 /\ scans[j].status = "failed"
                 /\ scans[j].error_message # NoError
                 /\ scans[j].error_message =
                        IF tasks[j].stderr # "" THEN tasks[j].stderr
                        ELSE "Scan failed with no error message"
            /\ scans[j].completed_at # NoTime
            /\ scans[j].status = "completed" => scans[j].error_message = NoError

\* One scan's scanner exited with a non-zero code and nothing on stderr, the
\* other's with code zero, one through the Celery worker and one through
\* the re-run executor.
C20_Witness ==
    \E j, k \in DOMAIN tasks \cap DOMAIN scans :
        /\ tasks[j].kind # tasks[k].kind
        /\ tasks[j].returncode = 1 /\ tasks[j].stderr = ""
        /\ scans[j].error_message = "Scan failed with no error message"
        /\ tasks[k].returncode = 0 /\ scans[k].status = "completed"

\* ---------------------------------------------------------------- C21
\* The step by which a worker ends scan j: the row leaves running for
\* completed or failed.
Terminates(j) ==
    /\ j \in DOMAIN scans /\ j \in DOMAIN scans' /\ j \in DOMAIN tasks
    /\ scans[j].status = "running"
    /\ scans'[j].status \in {"completed", "failed"}
\* The well-formed processed artifacts in the directory of j's scanner.
ParsableUnits(j) ==
    {u \in Units : /\ processed_exists(tasks[j].dir, u)
                   /\ dirs[tasks[j].dir].files[u].processed.state = "ok"}

\* C21: whenever a worker ends a scan (exit code zero or not, timeout or
\* error, Celery task or re-run), its parser pass has left a result row for
\* every well-formed processed artifact that was in the scan's directory.
C21_TerminalThenParsed ==
    [][\A j \in ScanIds :
         Terminates(j) =>
            \A u \in ParsableUnits(j) :
               \E r \in results' :
                  /\ r.scan_id = j
                  /\ r.plugin_name =
                        plugin_name_of(u, dirs[tasks[j].dir].files[u].processed)]_vars

\* ---------------------------------------------------------------- C22
\* The scan a served submit or re-run answer names as new.
AnsweredScan == IF resp.op = "rerun" THEN resp.new ELSE resp.scan

\* C22: when a submit or a re-run is answered with the new scan, that scan is
\* still pending or running, its scanner has not been collected, and the
\* answer carries no failure or timeout of the scanner.
C22_AnsweredBeforeExit ==
    (resp.op \in {"create_scan", "rerun"} /\ resp.served
        /\ AnsweredScan \in DOMAIN scans)
    => /\ scans[AnsweredScan].status \in {"pending", "running"}
       /\ tasks[AnsweredScan].returncode = NoCode
       /\ resp.op = "rerun" => (resp.success /\ resp.error = NoError)

\* ---------------------------------------------------------------- C23
\* A step of the re-run that made scan k or of k's execution: the request
\* creates k, the synchronous executor moves, or k's scanner writes.
RerunActs(k) ==
    /\ k \in DOMAIN tasks' /\ tasks'[k].kind = "sync"
    /\ \/ k \notin DOMAIN tasks
       \/ tasks'[k] # tasks[k]
       \/ (tasks[k].alive /\ dirs' # dirs)
RerunCopy(a, row) ==
    [ScanRow(a, row.target, row.scan_mode, row.plugins) EXCEPT
        !.parallel = row.parallel, !.verbose = row.verbose,
        !.dry_run = row.dry_run]

\* C23: a re-run of scan j adds a row with a fresh id that is pending, owned
\* by the requester and copies j's target, mode, selection and flags; the
\* re-run and every step of the new scan's execution leave j's row, j's
\* result rows and all share grants as they were.
C23_RerunLeavesOriginal ==
    [][\A k \in ScanIds :
         RerunActs(k) =>
            LET j == tasks'[k].origin
            IN  /\ j # k
                /\ j \in DOMAIN scans =>
                     /\ j \in DOMAIN scans' /\ scans'[j] = scans[j]
                     /\ {r \in results' : r.scan_id = j}
                           = {r \in results : r.scan_id = j}
                     /\ shares' = shares
                /\ k \notin DOMAIN tasks =>
                     /\ k \notin DOMAIN scans
                     /\ scans'[k] = RerunCopy(tasks'[k].actor, scans[j])]_vars
C23_Witness ==
    /\ 2 \in DOMAIN scans /\ scans[2].status = "completed"
    /\ scans[2].dry_run /\ scans[2].plugins = {"pa"}
    /\ scans[2].user_id = "user"
    /\ tasks[2].origin = 1 /\ tasks[2].returncode = 0
    /\ \E r \in results : r.scan_id = 2
    /\ scans[1].status = "completed" /\ scans[1].user_id = "power"
    /\ \E r \in results : r.scan_id = 1
    /\ \E s \in shares : s.scan_id = 1

\* ---------------------------------------------------------------- C24
\* C24: once a scan's row holds an output directory, no step (worker,
\* parser, status read, re-run, transfer, share) gives the row another one.
C24_OutputDirStable ==
    [][\A j \in ScanIds :
         (j \in DOMAIN scans /\ j \in DOMAIN scans'
             /\ scans[j].output_dir # NoDir)
         => scans'[j].output_dir = scans[j].output_dir]_vars
C24_Witness ==
    \E j \in DOMAIN scans :
        /\ tasks[j].kind = "celery" /\ tasks[j].returncode # NoCode
        /\ scans[j].output_dir = tasks[j].dir /\ scans[j].output_dir # NoDir
        /\ scans[j].user_id # tasks[j].actor
        /\ \E r \in results : r.scan_id = j

\* ---------------------------------------------------------------- C25
\* C25: the status answer of the API and of the scan page for a passive scan
\* lists no unit of type active, whatever artifacts its directory holds.
C25_PassiveListsNoActive ==
    (StatusAnswer /\ scans[resp.scan].scan_mode = "passive")
    => \A e \in resp.results : plugin_types(e.plugin_name) # "active"

\* ---------------------------------------------------------------- C26
\* C26: every result row of a scan is named after a unit that has a
\* processed artifact in the scan's output directory.
C26_RowHasArtifact ==
    \A r \in results :
        r.scan_id \in DOMAIN scans =>
            /\ r.plugin_name \in Units
            /\ processed_exists(scans[r.scan_id].output_dir, r.plugin_name)

\* ---------------------------------------------------------------- C28
\* The value of the first key present in the order error, message,
\* error_message, findings.error, findings.message, details, reason.
FieldOrder ==
    <<"error", "message", "error_message", "f_error", "f_message", "details",
      "reason">>
FirstPresent(doc) ==
    LET present == {i \in 1..Len(FieldOrder) : doc.errs[FieldOrder[i]] # ""}
    IN  IF present = {} THEN NoError
        ELSE doc.errs[FieldOrder[CHOOSE i \in present : \A k \in present : i <= k]]

\* C28: the error message of a row parsed from an artifact of disposition
\* fail is the first present field of that order, cut to the length limit;
\* for any other disposition the row has no error message.
C28_FirstPresentField ==
    \A r \in results :
        LET doc == dirs[DoneDir].files["pa"].processed
        IN  r.error_message =
               IF disposition_of(doc) = "fail" THEN Truncate(FirstPresent(doc))
               ELSE NoError

\* ---------------------------------------------------------------- C27
\* The artifact of unit u as a pass of session s has to see it: the file in
\* the pass's directory, which for the worker's terminal pass no longer
\* changes and for a polling pass is the document the pass read.
SeenBy(s, u) ==
    LET doc == IF processed_exists(sess[s].dir, u)
               THEN dirs[sess[s].dir].files[u].processed ELSE Absent
    IN  IF s = "worker" \/ sess[s].docs[u] = doc THEN doc ELSE Absent
Upserted(rows, sid, u, doc) ==
    \E r \in rows :
        /\ r.scan_id = sid
        /\ r.plugin_name = plugin_name_of(u, doc)
        /\ r.status = disposition_of(doc)
        /\ r.findings_count = findings_count_of(doc)
        /\ r.error_message = extract_plugin_error(doc, disposition_of(doc))

Starts(j) ==
    /\ j \in DOMAIN scans /\ j \in DOMAIN tasks
    /\ tasks[j].pc = "queued" /\ tasks'[j].pc = "process"

\* C29: the scanner of a scan submitted without a profile is started with
\* the configuration of a profile holding the system-default flag when there
\* is one, and without a configuration file only when there is none.
C29_DefaultProfileUsed ==
    [][\A j \in ScanIds :
         (Starts(j) /\ scans[j].config_profile_id = NoProfile) =>
            IF Holders(profiles) # {}
            THEN tasks'[j].config \in Holders(profiles)
            ELSE tasks'[j].config = NoProfile]_vars

\* ---------------------------------------------------------------- C30
\* C30: when the worker takes up a scan that refers to a profile, either the
\* scanner is started with that profile's configuration or the scan fails;
\* it is not started without the configuration.
C30_ProfileOrFailure ==
    [][\A j \in ScanIds :
         (/\ j \in DOMAIN scans /\ j \in DOMAIN tasks
          /\ tasks[j].pc = "queued" /\ tasks'[j].pc # "queued"
          /\ scans[j].config_profile_id # NoProfile)
         => \/ /\ tasks'[j].pc = "process"
               /\ tasks'[j].config = scans[j].config_profile_id
            \/ /\ tasks'[j].pc = "done"
               /\ scans'[j].status = "failed"]_vars

\* ---------------------------------------------------------------- C31
\* A delete request of an actor who holds edit on the scan it names.
PermittedDelete ==
    /\ resp'.op = "delete"
    /\ resp'.scan \in DOMAIN scans
    /\ check_scan_access(resp'.actor, resp'.scan, "edit").has_access

\* C31: a permitted delete removes the scan's row and its result rows; when
\* the output directory could not be removed they stay removed and the
\* request is answered with a warning.
C31_DeleteRemovesRows ==
    [][PermittedDelete =>
         /\ resp'.scan \notin DOMAIN scans'
         /\ \A r \in results' : r.scan_id # resp'.scan
         /\ resp'.served
         /\ (scans[resp'.scan].output_dir \in DOMAIN dirs')
               <=> (DirExists(scans[resp'.scan].output_dir)
                       /\ resp'.flash = "warning")]_vars

\* ---------------------------------------------------------------- C40
\* C40: a permitted delete of a scan that has share grants removes the scan,
\* and no share grant of the scan is left in the store.
C40_DeleteWithGrants ==
    [][(PermittedDelete /\ \E s \in shares : s.scan_id = resp'.scan) =>
         /\ resp'.served
         /\ resp'.scan \notin DOMAIN scans'
         /\ \A s \in shares' : s.scan_id # resp'.scan]_vars

\* ---------------------------------------------------------------- C32
\* Scan j is running and its worker is gone.
Lost(j) ==
    /\ j \in DOMAIN scans /\ scans[j].status = "running"
    /\ tasks[j].pc = "done"

\* C32: a scan left running by a lost worker is eventually failed.
C32_LostIsReconciled ==
    \A j \in ScanIds :
        Lost(j) ~> (j \in DOMAIN scans /\ scans[j].status = "failed")

\* ---------------------------------------------------------------- C39
\* C39: every scan row that submit has committed eventually is completed or
\* failed, also when the hand-off to the worker raised.
C39_SubmittedTerminates ==
    \A j \in ScanIds :
        (j \in DOMAIN scans)
            ~> (j \in DOMAIN scans /\ scans[j].status \in {"completed", "failed"})

\* ---------------------------------------------------------------- C33
\* C33: for a scan without a selection the status answer lists as
\* in_progress every unit name that has a raw artifact and no processed one,
\* and lists only units that have an artifact of their own name: nothing
\* for kast_report.json or for a file of another naming pattern.
C33_RawIsInProgress ==
    (StatusAnswer /\ scans[resp.scan].plugins = {})
    => /\ \A u \in FileUnits :
            (/\ raw_exists(scans[resp.scan].output_dir, u)
             /\ ~processed_exists(scans[resp.scan].output_dir, u)
             /\ ~(resp.op = "detail" /\ scans[resp.scan].scan_mode = "passive"
                     /\ plugin_types(u) = "active"))
            => \E e \in resp.results :
                  e.plugin_name = u /\ e.status = "in_progress"
       /\ \A e \in resp.results :
            \/ raw_exists(scans[resp.scan].output_dir, e.plugin_name)
            \/ processed_exists(scans[resp.scan].output_dir, e.plugin_name)

\* ---------------------------------------------------------------- C34
Reported(u, st) ==
    /\ resp.op = "get_scan_status" /\ resp.served
    /\ \E e \in resp.results : e.plugin_name = u /\ e.status = st
\* C34: while the scanner only adds files, a unit once reported in_progress
\* is never later reported pending, and a unit once reported completed is
\* never later reported in_progress or pending, also when a file appears
\* between the listing and the existence checks of a read.
C34_StatusNeverRegresses ==
    \A u \in FileUnits :
        /\ [](Reported(u, "in_progress") => [](~Reported(u, "pending")))
        /\ [](Reported(u, "completed")
                => [](~Reported(u, "in_progress") /\ ~Reported(u, "pending")))
\* A read answers one unit completed and the other in progress, the
\* completed one without a stored row: its processed artifact appeared
\* after the read's parser pass and before its existence check.
C34_Witness ==
    /\ Reported("pa", "completed")
    /\ Reported("ac", "in_progress")
    /\ scans[1].plugins = Units
    /\ \A r \in results : r.plugin_name # "pa"

\* ---------------------------------------------------------------- C35
\* C35: a status read changes no scan row, no share grant and no file; it
\* changes result rows only for a scan that is running with an output
\* directory set; and a read that directly follows a read of the same scan
\* gives the same answer and leaves the store as it was.
C35_ReadOnlyParsesRunning ==
    [][resp'.op = "get_scan_status" =>
          /\ scans' = scans /\ shares' = shares /\ dirs' = dirs
          /\ (results' # results \/ nextResultId' # nextResultId)
                => /\ resp'.served
                   /\ scans[resp'.scan].status = "running"
                   /\ scans[resp'.scan].output_dir # NoDir
          /\ (resp.op = "get_scan_status" /\ resp.scan = resp'.scan)
                => resp' = resp /\ results' = results]_vars
\* A read of a failed scan whose directory holds a processed artifact that
\* no pass has stored.
C35_Witness ==
    /\ resp.op = "get_scan_status" /\ resp.served
    /\ scans[resp.scan].status = "failed"
    /\ processed_exists(scans[resp.scan].output_dir, "pa")
    /\ \A r \in results : r.scan_id # resp.scan

\* ---------------------------------------------------------------- C36
\* C36: no scan row was created by a request of an actor with role viewer:
\* every submit and every re-run of a viewer is refused.
C36_NoViewerJob ==
    /\ \A j \in DOMAIN scans :
          j \in DOMAIN tasks => role(tasks[j].actor) # "viewer"
    /\ (resp.op \in {"create_scan", "rerun"} /\ role(resp.actor) = "viewer")
          => ~resp.served

\* ---------------------------------------------------------------- C37
\* C37: every result row refers to a scan that exists, whatever the
\* interleaving of the scan's delete with its worker and with status reads,
\* and a deleted scan's row is not created again.
C37_NoOrphanResult ==
    /\ \A r \in results : r.scan_id \in DOMAIN scans
    /\ \A j \in DOMAIN scans : j < nextScanId

\* ---------------------------------------------------------------- C38
\* C38: the store holds at most one user grant per (scan, grantee), whatever
\* the interleaving of share-with-user requests for that pair.
C38_OneGrantPerGrantee ==
    \A j \in ScanIds, g \in Users : Cardinality(SharesFor(j, g)) <= 1

====
